---------------------------- MODULE Spec2Model ----------------------------
(***************************************************************************)
(* AERIS worker side: the hourly ingestion driver (harmony_service.py,     *)
(* tasks/pollution_tasks.py) and the saved-route scoring and alert          *)
(* pipeline (tasks/alert_tasks.py, services/alerts/detection.py).           *)
(*                                                                         *)
(* Specifications:                                                         *)
(*   SpecRetry   one call of _request_with_retry                           *)
(*   SpecWait    one call of wait_for_job (with weak fairness of its loop) *)
(*   SpecIngest  one run of fetch_tempo_hourly over the five gases          *)
(*   SpecUpes    runs of compute_upes_hourly and                            *)
(*               recompute_saved_route_exposure                             *)
(*   SpecAlerts  runs of compute_saved_route_upes_scores and                *)
(*               run_alert_pipeline                                         *)
(*   SpecNormalize  one call of geotiff_to_grid_rows on a small raster      *)
(*   SpecDetect  one call of check_route_deterioration or                   *)
(*               _channels_from_preferences                                 *)
(*   SpecScore   hourly compute_final_score with EMA over the previous      *)
(*               final_score raster                                         *)
(*   SpecPath    one call of shortest_path_optimized or k_shortest_paths    *)
(*   SpecBeat    the celery beat schedule over some hours                  *)
(*   SpecCache   cache_get and cache_set against a Redis that may fail     *)
(*   SpecToken   get_bearer_token, one call per gas                        *)
(*   SpecRace    route scoring while compute_upes_hourly writes a raster   *)
(*   SpecWeights one call of mode_modifier or build_weighted_graph         *)
(*   SpecGrid    one cell through aggregation, write_geotiff and sampling  *)
(*   SpecWindow  hourly ingestion runs and the UPES aggregation window     *)
(***************************************************************************)
EXTENDS Integers, Sequences, FiniteSets, TLC

VARIABLES
    \* ---- _request_with_retry (one call frame) ----
    rq,             \* "idle" | "loop" | "returned" | "raised"
    attempt,        \* loop index of `for attempt in range(max_retries)`
    responses,      \* what each request sent so far was answered with
    sleeps,         \* the delays passed to time.sleep, in order
    \* ---- wait_for_job (one call frame) ----
    w_pc,           \* "idle" | "top" | "poll" | "returned" | "raised_job" | "raised_timeout" | "raised_http"
    elapsed,        \* time.time() - start, seconds
    status,         \* lower-cased status of the last job document
    \* ---- fetch_tempo_hourly / fetch_tempo_geotiff ----
    f_pc,           \* position in fetch_tempo_hourly
    gi,             \* index into gases of the gas being processed
    attempted,      \* gases for which fetch_tempo_geotiff was called, in order
    sub,            \* outcome of submit_request: (resp, job_url, is_async), its kind,
                    \* the status code and the shape of the answer
    job_polled,     \* wait_for_job was entered for the current gas
    dl,             \* [links, url]: the job document's links and download_url
    retval,         \* what fetch_tempo_geotiff is about to return: "None" | "path"
    path,           \* fetch_tempo_hourly's `path`: "None" | "path"
    tmpfiles,       \* temporary GeoTIFF files on disk
    upload,         \* audit upload of the current gas: "none" | "skipped" | "ok" | "raised"
    session,        \* "closed" | "open"
    rowsLeft,       \* rows the normalizer generator has still to yield
    pending,        \* rows added to the session, not committed
    chunk_no,       \* chunks yielded so far for the current gas
    failed_chunk,   \* chunk whose add/commit raised (0: none)
    stored,         \* pollution_grid: committed rows per gas (this hour)
    inserted_total, \* fetch_tempo_hourly's counter
    marker,         \* redis key tempo:last_update: [set, ttl]
    enqueued,       \* tasks handed to apply_async, in order
    f_result,       \* "running" | "dict" | "raised"
    \* ---- the worker process and the task it runs ----
    settings,       \* config.settings: upes_enabled, alerts_enabled, redis_url, alerts_n8n_webhook_url
    t_task,         \* name of the task that runs or ran last
    t_pc,           \* position in that task ("idle": none running)
    t_result,       \* what the task returned: [kind, status, reason, count]
    t_writes,       \* what the run has written so far (files, rows, cache keys)
    \* ---- compute_upes_hourly / recompute_saved_route_exposure ----
    grid,           \* pollution_grid: "empty" | "outside" (no row in the UPES box) | "inside"
    sat_rasters,    \* files under hourly_scores/satellite_score
    final_rasters,  \* files under hourly_scores/final_score
    upes_logs,      \* files under logs
    upes_marker,    \* redis key upes:last_update is set
    legacy,         \* saved_routes.last_computed_score per route: "unset" | "score" | "null"
    \* ---- compute_saved_route_upes_scores / run_alert_pipeline ----
    last_upes_score,\* saved_routes.last_upes_score per route (NoScore: NULL)
    history,        \* route_exposure_history rows per route, in insertion order
    now,            \* the clock, hours
    score_runs,     \* scoring runs that committed history rows
    pipeline_runs,  \* pipeline runs that committed alert_log rows
    alert_log,      \* committed alert_log rows
    a_i,            \* index of the route the pipeline loop is at
    a_pending,      \* alert_log rows flushed in the open transaction
    a_payload,      \* run_alert_pipeline's n8n_payload
    evaluated,      \* per route, what the running pipeline passed to run_detection
    posts,          \* outcomes of the webhook POSTs of the running pipeline
    \* ---- geotiff_to_grid_rows (one generator frame) ----
    n_pc,           \* "idle" | "scan" | "tail" | "done"
    raster,         \* the arguments: [gas_type, band, height, width, max_cells]
    n_i,            \* loop variable i (row), 0-based
    n_j,            \* loop variable j (column), 0-based
    n_count,        \* the generator's `count`
    n_chunk,        \* the generator's `chunk`
    n_read,         \* pixels whose value the loop has read, in order
    n_yield,        \* chunks yielded so far, in order
    \* ---- one call of a function of the alert layer ----
    d_pc,           \* "idle" | "call" | "returned"
    d_call,         \* [fn, args]: the function called and its arguments
    d_ret,          \* what the call returned
    \* ---- the scoring part of compute_upes_hourly, hour after hour ----
    u_pc,           \* "idle" | "compute" | "write"
    u_hour,         \* hours completed
    u_lambda,       \* settings.upes_ema_lambda in tenths (NoScore: None)
    u_file,         \* final_score raster of the previous hour on disk (<<>>: none)
    u_in,           \* this hour's [sat, hdf, wtf, tf, previous_final]
    u_final,        \* this hour's final_score array
    \* ---- one call of shortest_path_optimized or k_shortest_paths ----
    p_pc,           \* "idle" | "call" | "returned"
    p_call,         \* [fn, G, src, tgt, k]: src and tgt are the snapped nodes
    p_ret,          \* the routes returned (<<>>: None or [])
    \* ---- celery beat and the worker's view of the four scheduled tasks ----
    b_clock,        \* UTC minutes since the start of hour 0
    b_sent,         \* messages beat has sent, in order: [task, at]
    b_worker,       \* per task: "idle" | "running" | "ok" | "skipped" | "failed"
    \* ---- cache.py over an optional Redis ----
    c_redis,        \* "none" (redis is None) | "up" | "down" (every command raises)
    c_store,        \* Redis: key -> [raw, expires] or NoEntry
    c_time,         \* seconds on Redis' clock
    c_set,          \* per key, the last cache_set: [value, ttl, at] or NoEntry
    c_last,         \* the last call: [op, key, at, ret, raised]
    \* ---- get_bearer_token, called once for each gas ----
    k_pc,           \* "idle" | "config" | "list" | "mint" | "returned"
    k_settings,     \* [bearer_token, earthdata_username, earthdata_password]
    k_calls,        \* calls begun
    k_first,        \* number of requests sent before the current call
    k_requests,     \* requests sent so far, in order: [method, resp]
    k_ret,          \* the return value ("None": None)
    \* ---- compute_upes_hourly writing while route scoring runs ----
    x_files,        \* final_score files: hour -> [state, mtime]; state "absent" | "partial" | "whole"
    x_tick,         \* the file system's clock
    x_upes,         \* the writer: "idle" | "writing" | "done" | "raised"
    x_score,        \* scoring: "idle" | "lookup" | "sampling" | "commit" | "done"
    x_seen,         \* the directory as get_latest_upes_raster_path saw it
    x_path,         \* raster_path: the hour of the file chosen (NoScore: None)
    x_hist,         \* RouteExposureHistory rows added: [route_id, file, read]
    x_result,       \* what the scoring task returned
    \* ---- one call of mode_modifier or build_weighted_graph ----
    m_pc,           \* "idle" | "call" | "returned" | "raised"
    m_call,         \* [fn, edges, mode]: the edges' tag dicts and the mode
    m_i,            \* build_weighted_graph: edges processed so far
    m_attrs,        \* build_weighted_graph: per processed edge, the attributes set
    m_ret,          \* mode_modifier: the value returned, in hundredths
    \* ---- one grid cell through aggregation, raster writing and sampling ----
    g_pc,           \* "idle" | "aggregate" | "write" | "sample" | "sampled"
    g_spec,         \* the GridSpec of the bbox and resolution
    g_point,        \* <<lon, lat>> of an observation centroid and of the sample
    g_cell,         \* <<i, j>>: where the aggregator bucketed the point
    g_raster,       \* the written file: [transform, band]
    g_px,           \* the cell whose value the sampler read (NoPixel: none)
    \* ---- hourly ingestion runs and the UPES aggregation window ----
    w_now,          \* the current hour (UTC, truncated)
    w_ingested,     \* fetch_tempo_hourly has run in the current hour
    w_table,        \* pollution_grid: set of [timestamp, cell, pollution_value]
    w_upes          \* last compute_upes_hourly: [status, max_ts, rows]

retryVars  == <<rq, attempt, responses, sleeps>>
waitVars   == <<w_pc, elapsed, status>>
ingestVars == <<f_pc, gi, attempted, sub, job_polled, dl, retval, path, tmpfiles,
                upload, session, rowsLeft, pending, chunk_no, failed_chunk,
                stored, inserted_total, marker, enqueued, f_result>>
taskVars   == <<settings, t_task, t_pc, t_result, t_writes>>
upesVars   == <<grid, sat_rasters, final_rasters, upes_logs, upes_marker, legacy>>
alertVars  == <<last_upes_score, history, now, score_runs, pipeline_runs, alert_log,
                a_i, a_pending, a_payload, evaluated, posts>>
workerVars == <<taskVars, upesVars, alertVars>>
normVars   == <<n_pc, raster, n_i, n_j, n_count, n_chunk, n_read, n_yield>>
detectVars == <<d_pc, d_call, d_ret>>
scoreVars  == <<u_pc, u_hour, u_lambda, u_file, u_in, u_final>>
pathVars   == <<p_pc, p_call, p_ret>>
callVars   == <<normVars, detectVars, scoreVars, pathVars>>
appVars    == <<retryVars, waitVars, ingestVars, workerVars>>
beatVars   == <<b_clock, b_sent, b_worker>>
cacheVars  == <<c_redis, c_store, c_time, c_set, c_last>>
tokenVars  == <<k_pc, k_settings, k_calls, k_first, k_requests, k_ret>>
raceVars   == <<x_files, x_tick, x_upes, x_score, x_seen, x_path, x_hist, x_result>>
weightVars == <<m_pc, m_call, m_i, m_attrs, m_ret>>
gridVars   == <<g_pc, g_spec, g_point, g_cell, g_raster, g_px>>
windowVars == <<w_now, w_ingested, w_table, w_upes>>
sysVars    == <<beatVars, cacheVars, tokenVars, raceVars, weightVars, gridVars, windowVars>>
vars == <<appVars, callVars, sysVars>>

Last(s) == s[Len(s)]

(***************************************************************************)
(* HTTP responses.  A response is a status code, or no response at all     *)
(* (requests.RequestException: socket timeout, connection error).          *)
(***************************************************************************)
Exc == [exc |-> TRUE, code |-> 0]
St(c) == [exc |-> FALSE, code |-> c]

\* requests.Response.raise_for_status raises for 4xx and 5xx
RaisesForStatus(r) == r.code >= 400 /\ r.code < 600

\* the property the spec calls "429/5xx"
Is429or5xx(r) == ~r.exc /\ (r.code = 429 \/ (r.code >= 500 /\ r.code < 600))
\* 4xx other than 429
IsRejection(r) == ~r.exc /\ r.code >= 400 /\ r.code < 500 /\ r.code # 429

(***************************************************************************)
(* _request_with_retry                                                     *)
(***************************************************************************)
max_retries == 3

\* a retry test that would also retry the 4xx rejections
RetryStatusesWith4xx == {400, 403, 404, 429, 500, 502, 503}

\* `if r.status_code in (429, 500, 502, 503)`
RetryStatuses == {429, 500, 502, 503}

\* inputs: what the broker may answer to one request
RetryResponses == {St(200), St(302), St(400), St(404), St(429), St(500),
                   St(503), St(504), Exc}

RetryIdle == rq = "idle" /\ attempt = 0 /\ responses = <<>> /\ sleeps = <<>>

\* entering the function: session = requests.Session(), attempt = 0
RetryEnter ==
    /\ rq' = "loop"
    /\ attempt' = 0
    /\ responses' = <<>>
    /\ sleeps' = <<>>

\* leaving the frame
RetryLeave ==
    /\ rq' = "idle"
    /\ attempt' = 0
    /\ responses' = <<>>
    /\ sleeps' = <<>>

\* one iteration of the for loop, answered with r
RequestAttempt(r) ==
    /\ rq = "loop"
    /\ attempt < max_retries
    /\ responses' = Append(responses, r)
    /\ IF r.exc
       THEN IF attempt = max_retries - 1
            THEN /\ rq' = "raised"
                 /\ UNCHANGED <<attempt, sleeps>>
            ELSE /\ sleeps' = Append(sleeps, 2 ^ attempt)
                 /\ attempt' = attempt + 1
                 /\ rq' = "loop"
       ELSE IF r.code \in RetryStatuses
            THEN IF attempt = max_retries - 1 /\ RaisesForStatus(r)
                 THEN /\ rq' = "raised"
                      /\ UNCHANGED <<attempt, sleeps>>
                 ELSE /\ sleeps' = Append(sleeps, 10 * (2 ^ attempt))
                      /\ attempt' = attempt + 1
                      \* falling out of the loop: `return r`
                      /\ rq' = IF attempt + 1 = max_retries THEN "returned" ELSE "loop"
            ELSE /\ rq' = "returned"
                 /\ UNCHANGED <<attempt, sleeps>>

(***************************************************************************)
(* wait_for_job                                                            *)
(***************************************************************************)
poll_interval == 10
max_wait_seconds == 3600

\* how long one _request_with_retry of the job document may take
PollDurations == {0, 50}

\* job documents: the "status" field as sent ("" when absent), or an
\* HTTP error on the job resource
JobAnswers == {"successful", "Complete", "failed", "CANCELED", "error",
               "running", "accepted", "", "http_error"}

\* (data.get("status") or "").lower()
Lower(s) ==
    CASE s = "Complete" -> "complete"
      [] s = "CANCELED" -> "canceled"
      [] OTHER -> s

\* a success test that knows "successful" only
JobSuccessOnlySuccessful == {"successful"}

JobSuccess == {"successful", "complete"}
JobFailure == {"failed", "canceled", "error"}

WaitIdle == w_pc = "idle" /\ elapsed = 0 /\ status = ""

\* `if time.time() - start > max_wait_seconds: raise TimeoutError`
WaitTop ==
    /\ w_pc = "top"
    /\ w_pc' = IF elapsed > max_wait_seconds THEN "raised_timeout" ELSE "poll"
    /\ UNCHANGED <<elapsed, status>>

\* one poll: request, raise_for_status, status test, sleep
WaitPoll ==
    /\ w_pc = "poll"
    /\ \E a \in JobAnswers, d \in PollDurations :
         IF a = "http_error"
         THEN /\ w_pc' = "raised_http"
              /\ elapsed' = elapsed + d
              /\ UNCHANGED status
         ELSE /\ status' = Lower(a)
              /\ IF Lower(a) \in JobSuccess
                 THEN w_pc' = "returned" /\ elapsed' = elapsed + d
                 ELSE IF Lower(a) \in JobFailure
                      THEN w_pc' = "raised_job" /\ elapsed' = elapsed + d
                      ELSE w_pc' = "top" /\ elapsed' = elapsed + d + poll_interval

WaitDone == w_pc \in {"returned", "raised_job", "raised_timeout", "raised_http"}


(***************************************************************************)
(* fetch_tempo_hourly and fetch_tempo_geotiff                              *)
(***************************************************************************)
\* list(TEMPO_COLLECTION_IDS.keys())
gases == <<"NO2", "CH2O", "AI", "PM", "O3">>
GasSet == {gases[i] : i \in 1..Len(gases)}

\* r.setex("tempo:last_update", 3600, ...)
MarkerTTL == 3600

\* DEFAULT_CHUNK_SIZE and DEFAULT_MAX_CELLS of the normalizer, scaled down
\* (2000 and 5000 in the source)
ChunkSize == 2
MaxCells == 4

\* what the broker may answer to one coverage request
CoverageResponses == {St(200), St(302), St(404), St(429), St(504), Exc}

NoSub == [kind |-> "none", code |-> 0, shape |-> "none", resp |-> FALSE,
          job_url |-> "None", is_async |-> FALSE]
NoDl == [links |-> <<>>, url |-> "None"]
NoMarker == [set |-> FALSE, ttl |-> 0]

Min(a, b) == IF a < b THEN a ELSE b

gas == gases[gi]

IngestIdle ==
    /\ f_pc = "idle" /\ gi = 1 /\ attempted = <<>> /\ sub = NoSub
    /\ job_polled = FALSE /\ dl = NoDl
    /\ retval = "None" /\ path = "None" /\ tmpfiles = 0
    /\ upload = "none" /\ session = "closed" /\ rowsLeft = 0 /\ pending = 0
    /\ chunk_no = 0 /\ failed_chunk = 0
    /\ stored = [g \in GasSet |-> 0] /\ inserted_total = 0
    /\ marker = NoMarker /\ enqueued = <<>> /\ f_result = "running"

\* `for gas in gases:` with `path = None`, then the call of fetch_tempo_geotiff
StartGas ==
    /\ f_pc = "loop"
    /\ gi <= Len(gases)
    /\ attempted' = Append(attempted, gas)
    /\ path' = "None"
    /\ upload' = "none"
    /\ chunk_no' = 0
    /\ failed_chunk' = 0
    /\ f_pc' = "token"
    /\ UNCHANGED <<gi, sub, job_polled, dl, retval, tmpfiles, session, rowsLeft,
                   pending, stored, inserted_total, marker, enqueued, f_result>>
    /\ UNCHANGED <<retryVars, waitVars, workerVars, callVars, sysVars>>

\* the loop is exhausted
EndLoop ==
    /\ f_pc = "loop"
    /\ gi > Len(gases)
    /\ f_pc' = "after"
    /\ UNCHANGED <<gi, attempted, sub, job_polled, dl, retval, path, tmpfiles, upload,
                   session, rowsLeft, pending, chunk_no, failed_chunk, stored,
                   inserted_total, marker, enqueued, f_result>>
    /\ UNCHANGED <<retryVars, waitVars, workerVars, callVars, sysVars>>

\* token = get_bearer_token(); without one fetch_tempo_geotiff returns None,
\* with one it builds the URL and submit_request starts _request_with_retry
GetToken ==
    /\ f_pc = "token"
    /\ \E token \in BOOLEAN :
         IF token
         THEN /\ f_pc' = "submit"
              /\ RetryEnter
              /\ UNCHANGED retval
         ELSE /\ f_pc' = "fetch_ret"
              /\ retval' = "None"
              /\ UNCHANGED retryVars
    /\ UNCHANGED <<gi, attempted, sub, job_polled, dl, path, tmpfiles, upload,
                   session, rowsLeft, pending, chunk_no, failed_chunk, stored,
                   inserted_total, marker, enqueued, f_result>>
    /\ UNCHANGED <<waitVars, workerVars, callVars, sysVars>>

\* one request of the coverage GET inside _request_with_retry
CoverageRequest ==
    /\ f_pc = "submit"
    /\ \E r \in CoverageResponses : RequestAttempt(r)
    /\ UNCHANGED ingestVars
    /\ UNCHANGED <<waitVars, workerVars, callVars, sysVars>>

\* submit_request after _request_with_retry has returned or raised: the
\* classification of the answer. (resp, job_url, is_async) is kept as `kind`.
SubmitKind(r, shape) ==
    IF r.code \in {302, 303, 307}
    THEN IF shape = "location" THEN "async" ELSE "nothing"
    ELSE IF r.code = 200
         THEN CASE shape = "json_job"  -> "async_json"
                [] shape = "json_link" -> "sync_link"
                [] shape = "json_bare" -> "sync_json"
                [] shape = "tiff"      -> "sync_tiff"
                [] OTHER               -> "sync_other"
         ELSE IF RaisesForStatus(r) THEN "raised" ELSE "nothing"

Shapes(r) ==
    IF r.code \in {302, 303, 307} THEN {"location", "no_location"}
    ELSE IF r.code = 200 THEN {"json_job", "json_link", "json_bare", "tiff", "html"}
    ELSE {"body"}

\* the tuple submit_request returns for answer r of the given shape:
\* (None, location, True), (r, jobs/{id}, True), (r, href, False),
\* (r, None, False), or (None, None, False) when nothing else applied
submit_request(r, shape) ==
    LET kind == SubmitKind(r, shape) IN
    [kind |-> kind, code |-> r.code, shape |-> shape,
     resp |-> kind \in {"async_json", "sync_link", "sync_json", "sync_tiff", "sync_other"},
     job_url |-> CASE kind = "async"      -> "location"
                   [] kind = "async_json" -> "jobs/id"
                   [] kind = "sync_link"  -> "data_href"
                   [] OTHER               -> "None",
     is_async |-> kind \in {"async", "async_json"}]

SubmitRequest ==
    /\ f_pc = "submit"
    /\ rq \in {"returned", "raised"}
    /\ IF rq = "raised"
       THEN sub' = [NoSub EXCEPT !.kind = "raised", !.code = Last(responses).code]
       ELSE \E shape \in Shapes(Last(responses)) :
              sub' = submit_request(Last(responses), shape)
    /\ RetryLeave
    /\ f_pc' = "dispatch"
    /\ UNCHANGED <<gi, attempted, job_polled, dl, retval, path, tmpfiles, upload,
                   session, rowsLeft, pending, chunk_no, failed_chunk, stored,
                   inserted_total, marker, enqueued, f_result>>
    /\ UNCHANGED <<waitVars, workerVars, callVars, sysVars>>

\* fetch_tempo_geotiff after submit_request: the branch taken
Dispatch ==
    /\ f_pc = "dispatch"
    /\ IF sub.kind = "raised"
       THEN \* an exception of submit_request
            /\ retval' = "None"
            /\ f_pc' = "fetch_ret"
            /\ UNCHANGED <<tmpfiles, dl>>
       ELSE IF sub.is_async /\ sub.job_url # "None"
       THEN /\ f_pc' = "wait"
            /\ UNCHANGED <<retval, tmpfiles, dl>>
       ELSE IF ~sub.is_async /\ sub.resp /\ sub.shape = "tiff"
       THEN \* Content-Type image/tiff or octet-stream: mkstemp, os.write, os.close
            \E written \in BOOLEAN :
               /\ tmpfiles' = tmpfiles + 1
               /\ retval' = IF written THEN "path" ELSE "None"
               /\ f_pc' = "fetch_ret"
               /\ UNCHANGED dl
       ELSE IF ~sub.is_async /\ sub.resp /\ sub.job_url # "None"
       THEN /\ f_pc' = "download"
            /\ dl' = [links |-> <<>>, url |-> sub.job_url]
            /\ UNCHANGED <<retval, tmpfiles>>
       ELSE \* nothing to fetch
            /\ retval' = "None"
            /\ f_pc' = "fetch_ret"
            /\ UNCHANGED <<tmpfiles, dl>>
    /\ UNCHANGED <<gi, attempted, sub, job_polled, path, upload, session,
                   rowsLeft, pending, chunk_no, failed_chunk, stored,
                   inserted_total, marker, enqueued, f_result>>
    /\ UNCHANGED <<retryVars, waitVars, workerVars, callVars, sysVars>>

Link(rel, href) == [rel |-> rel, href |-> href]

\* data.get("links", []) of a job document that wait_for_job returned
JobLinks ==
    { <<>>,
      <<Link("data", "href1"), Link("data", "href2")>>,
      <<Link("self", "self"), Link("data", "href2")>>,
      <<Link("data", "")>> }

\* a selection that keeps every link
all_links(links) == links

\* [l for l in data.get("links", []) if l.get("rel") == "data"]
data_links(links) == SelectSeq(links, LAMBDA l : l.rel = "data")

\* data = wait_for_job(job_url, token) and the choice of the download link
WaitForJob ==
    /\ f_pc = "wait"
    /\ job_polled' = TRUE
    /\ \/ \* wait_for_job raises
          /\ f_pc' = "fetch_ret" /\ retval' = "None" /\ dl' = dl
       \/ \E links \in JobLinks :
             IF data_links(links) # <<>> /\ data_links(links)[1].href # ""
             THEN /\ f_pc' = "download"
                  /\ dl' = [links |-> links, url |-> data_links(links)[1].href]
                  /\ UNCHANGED retval
             ELSE /\ f_pc' = "fetch_ret" /\ retval' = "None"
                  /\ dl' = [links |-> links, url |-> "None"]
    /\ UNCHANGED <<gi, attempted, sub, path, tmpfiles, upload, session,
                   rowsLeft, pending, chunk_no, failed_chunk, stored,
                   inserted_total, marker, enqueued, f_result>>
    /\ UNCHANGED <<retryVars, waitVars, workerVars, callVars, sysVars>>

\* download_to_temp_file: a failing GET creates no file, a failing write
\* unlinks the file it created
DownloadToTempFile ==
    /\ f_pc = "download"
    /\ \E outcome \in {"ok", "http_error", "write_error"} :
         /\ tmpfiles' = IF outcome = "ok" THEN tmpfiles + 1 ELSE tmpfiles
         /\ retval' = IF outcome = "ok" THEN "path" ELSE "None"
    /\ f_pc' = "fetch_ret"
    /\ UNCHANGED <<gi, attempted, sub, job_polled, dl, path, upload, session,
                   rowsLeft, pending, chunk_no, failed_chunk, stored,
                   inserted_total, marker, enqueued, f_result>>
    /\ UNCHANGED <<retryVars, waitVars, workerVars, callVars, sysVars>>

\* a loop that stops at the first gas without data (`break`)
AfterFetchBreak(rv) == IF rv = "None" THEN "after" ELSE "upload"

\* `if not path: continue`: the finally clause runs, then the next gas
AfterFetch(rv) == IF rv = "None" THEN "cleanup" ELSE "upload"

\* path = fetch_tempo_geotiff(...); `if not path: continue`
FetchReturn ==
    /\ f_pc = "fetch_ret"
    /\ path' = retval
    /\ retval' = "None"
    /\ sub' = NoSub
    /\ job_polled' = FALSE
    /\ dl' = NoDl
    /\ f_pc' = AfterFetch(retval)
    /\ UNCHANGED <<gi, attempted, tmpfiles, upload, session, rowsLeft, pending,
                   chunk_no, failed_chunk, stored, inserted_total, marker,
                   enqueued, f_result>>
    /\ UNCHANGED <<retryVars, waitVars, workerVars, callVars, sysVars>>

\* the optional audit upload, in its own try/except
Upload ==
    /\ f_pc = "upload"
    /\ \E outcome \in {"skipped", "ok", "raised"} : upload' = outcome
    /\ f_pc' = "session"
    /\ UNCHANGED <<gi, attempted, sub, job_polled, dl, retval, path, tmpfiles,
                   session, rowsLeft, pending, chunk_no, failed_chunk, stored,
                   inserted_total, marker, enqueued, f_result>>
    /\ UNCHANGED <<retryVars, waitVars, workerVars, callVars, sysVars>>

\* session = _get_sync_session(); the first next() of geotiff_to_grid_rows
\* reads the raster (n rows to yield) or raises
OpenSession ==
    /\ f_pc = "session"
    /\ \E opened \in BOOLEAN :
         IF ~opened
         THEN /\ f_pc' = "cleanup"
              /\ failed_chunk' = 1
              /\ UNCHANGED <<session, rowsLeft>>
         ELSE /\ session' = "open"
              /\ \E readable \in BOOLEAN :
                   IF readable
                   THEN /\ \E n \in 0..MaxCells : rowsLeft' = n
                        /\ f_pc' = "insert"
                        /\ UNCHANGED failed_chunk
                   ELSE /\ rowsLeft' = 0
                        /\ failed_chunk' = 1
                        /\ f_pc' = "close"
    /\ UNCHANGED <<gi, attempted, sub, job_polled, dl, retval, path, tmpfiles,
                   upload, pending, chunk_no, stored, inserted_total, marker,
                   enqueued, f_result>>
    /\ UNCHANGED <<retryVars, waitVars, workerVars, callVars, sysVars>>

\* a commit that keeps the rows of a chunk although it raised
RowsKeptAutocommit(outcome, rows) == IF outcome = "add_raised" THEN 0 ELSE rows

\* rows of a chunk that are in the table after add_all/commit: all of them
\* when the commit succeeded, none when add_all or commit raised
RowsKept(outcome, rows) == IF outcome = "committed" THEN rows ELSE 0

\* one iteration of `for chunk in geotiff_to_grid_rows(...)`:
\* session.add_all(rows); session.commit(); the counters
InsertChunk ==
    /\ f_pc = "insert"
    /\ IF rowsLeft = 0
       THEN /\ f_pc' = "close"
            /\ UNCHANGED <<rowsLeft, pending, chunk_no, failed_chunk, stored,
                           inserted_total>>
       ELSE LET rows == Min(ChunkSize, rowsLeft) IN
            /\ chunk_no' = chunk_no + 1
            /\ \E outcome \in {"committed", "add_raised", "commit_raised"} :
                 CASE outcome = "committed" ->
                        /\ stored' = [stored EXCEPT ![gas] = @ + RowsKept(outcome, rows)]
                        /\ inserted_total' = inserted_total + rows
                        /\ rowsLeft' = rowsLeft - rows
                        /\ pending' = 0
                        /\ f_pc' = "insert"
                        /\ UNCHANGED failed_chunk
                   [] outcome = "add_raised" ->
                        /\ stored' = [stored EXCEPT ![gas] = @ + RowsKept(outcome, rows)]
                        /\ failed_chunk' = chunk_no + 1
                        /\ f_pc' = "close"
                        /\ UNCHANGED <<inserted_total, rowsLeft, pending>>
                   [] OTHER ->
                        /\ stored' = [stored EXCEPT ![gas] = @ + RowsKept(outcome, rows)]
                        /\ pending' = rows
                        /\ failed_chunk' = chunk_no + 1
                        /\ f_pc' = "close"
                        /\ UNCHANGED <<inserted_total, rowsLeft>>
    /\ UNCHANGED <<gi, attempted, sub, job_polled, dl, retval, path, tmpfiles,
                   upload, session, marker, enqueued, f_result>>
    /\ UNCHANGED <<retryVars, waitVars, workerVars, callVars, sysVars>>

\* `finally: session.close()`: what was not committed is discarded
CloseSession ==
    /\ f_pc = "close"
    /\ session' = "closed"
    /\ pending' = 0
    /\ f_pc' = "cleanup"
    /\ UNCHANGED <<gi, attempted, sub, job_polled, dl, retval, path, tmpfiles,
                   upload, rowsLeft, chunk_no, failed_chunk, stored,
                   inserted_total, marker, enqueued, f_result>>
    /\ UNCHANGED <<retryVars, waitVars, workerVars, callVars, sysVars>>

\* the outer `finally`: unlink the temp file, then the next gas
Cleanup ==
    /\ f_pc = "cleanup"
    /\ tmpfiles' = IF path # "None" THEN tmpfiles - 1 ELSE tmpfiles
    /\ path' = "None"
    /\ upload' = "none"
    /\ chunk_no' = 0
    /\ failed_chunk' = 0
    /\ rowsLeft' = 0
    /\ gi' = gi + 1
    /\ f_pc' = "loop"
    /\ UNCHANGED <<attempted, sub, job_polled, dl, retval, session, pending,
                   stored, inserted_total, marker, enqueued, f_result>>
    /\ UNCHANGED <<retryVars, waitVars, workerVars, callVars, sysVars>>

\* a guard that publishes after every run
HasInsertedAlways(n) == n >= 0

\* `if inserted_total > 0:`
HasInserted(n) == n > 0

\* `if inserted_total > 0:` and the Redis marker, in its own try/except
SetMarker ==
    /\ f_pc = "after"
    /\ IF HasInserted(inserted_total)
       THEN /\ \E outcome \in {"no_url", "set", "raised"} :
                 marker' = IF outcome = "set"
                           THEN [set |-> TRUE, ttl |-> MarkerTTL]
                           ELSE marker
            /\ f_pc' = "enqueue_recompute"
       ELSE /\ f_pc' = "return"
            /\ UNCHANGED marker
    /\ UNCHANGED <<gi, attempted, sub, job_polled, dl, retval, path, tmpfiles,
                   upload, session, rowsLeft, pending, chunk_no, failed_chunk,
                   stored, inserted_total, enqueued, f_result>>
    /\ UNCHANGED <<retryVars, waitVars, workerVars, callVars, sysVars>>

\* recompute_saved_route_exposure.apply_async(), outside any try
EnqueueRecompute ==
    /\ f_pc = "enqueue_recompute"
    /\ \E sent \in BOOLEAN :
         IF sent
         THEN /\ enqueued' = Append(enqueued, "recompute_saved_route_exposure")
              /\ f_pc' = "enqueue_upes"
              /\ UNCHANGED f_result
         ELSE /\ f_result' = "raised"
              /\ f_pc' = "done"
              /\ UNCHANGED enqueued
    /\ UNCHANGED <<gi, attempted, sub, job_polled, dl, retval, path, tmpfiles,
                   upload, session, rowsLeft, pending, chunk_no, failed_chunk,
                   stored, inserted_total, marker>>
    /\ UNCHANGED <<retryVars, waitVars, workerVars, callVars, sysVars>>

\* compute_upes_hourly.apply_async(), in try/except: pass
EnqueueUpes ==
    /\ f_pc = "enqueue_upes"
    /\ \E sent \in BOOLEAN :
         enqueued' = IF sent THEN Append(enqueued, "compute_upes_hourly")
                     ELSE enqueued
    /\ f_pc' = "return"
    /\ UNCHANGED <<gi, attempted, sub, job_polled, dl, retval, path, tmpfiles,
                   upload, session, rowsLeft, pending, chunk_no, failed_chunk,
                   stored, inserted_total, marker, f_result>>
    /\ UNCHANGED <<retryVars, waitVars, workerVars, callVars, sysVars>>

\* return {"inserted": inserted_total, "gases": gases}
ReturnIngest ==
    /\ f_pc = "return"
    /\ f_result' = "dict"
    /\ f_pc' = "done"
    /\ UNCHANGED <<gi, attempted, sub, job_polled, dl, retval, path, tmpfiles,
                   upload, session, rowsLeft, pending, chunk_no, failed_chunk,
                   stored, inserted_total, marker, enqueued>>
    /\ UNCHANGED <<retryVars, waitVars, workerVars, callVars, sysVars>>

(***************************************************************************)
(* The worker tasks: shared state                                          *)
(***************************************************************************)
\* saved_routes rows
Routes == {1, 2}

\* NULL in a score column
NoScore == -1

\* task results
Running      == [kind |-> "running", status |-> "", reason |-> "", count |-> -1]
Raised       == [kind |-> "raised", status |-> "", reason |-> "", count |-> -1]
ReturnedNone == [kind |-> "None", status |-> "", reason |-> "", count |-> -1]
Skipped(why) == [kind |-> "dict", status |-> "skipped", reason |-> why, count |-> -1]
Ok(n)        == [kind |-> "dict", status |-> "ok", reason |-> "", count |-> n]

DefaultSettings == [upes_enabled |-> TRUE, alerts_enabled |-> TRUE,
                    redis_url |-> TRUE, alerts_n8n_webhook_url |-> FALSE]

NotEvaluated == [done |-> FALSE, current |-> NoScore, max |-> NoScore,
                 prev |-> NoScore, recent_min |-> NoScore,
                 wind_kph |-> NoScore, source |-> <<>>, alerts |-> <<>>]

TaskIdle ==
    /\ t_task = "none" /\ t_pc = "idle" /\ t_result = Running /\ t_writes = {}

UpesIdle ==
    /\ grid = "empty" /\ sat_rasters = {} /\ final_rasters = {} /\ upes_logs = {}
    /\ upes_marker = FALSE /\ legacy = [r \in Routes |-> "unset"]

AlertsIdle ==
    /\ last_upes_score = [r \in Routes |-> NoScore]
    /\ history = [r \in Routes |-> <<>>]
    /\ now = 0 /\ score_runs = 0 /\ pipeline_runs = 0
    /\ alert_log = <<>> /\ a_i = 0 /\ a_pending = <<>> /\ a_payload = <<>>
    /\ evaluated = [r \in Routes |-> NotEvaluated] /\ posts = <<>>

WorkerIdle == settings = DefaultSettings /\ TaskIdle /\ UpesIdle /\ AlertsIdle

\* a task starts / ends
Begin(name) == t_pc = "idle" /\ t_task' = name
Finish(result) == t_pc' = "idle" /\ t_result' = result

(***************************************************************************)
(* compute_upes_hourly                                                     *)
(***************************************************************************)
\* timestamp = ts_start = MAX(timestamp) - 1 h; the hour before it is the
\* one the smoothing reads
UpesHour == 1
PrevHour == 0

\* a file of one hour; whole = FALSE: created, then the write raised
File(ts, whole) == [ts |-> ts, whole |-> whole]

\* open(path, "w"): the file of that hour is replaced
Rewrite(files, f) == {g \in files : g.ts # f.ts} \cup {f}

\* the flag, the session, MAX(timestamp), the aggregation
UpesStart ==
    /\ Begin("compute_upes_hourly")
    /\ t_writes' = {}
    /\ IF ~settings.upes_enabled
       THEN Finish(Skipped("disabled"))
       ELSE \E db \in {"ok", "session_raises", "query_raises", "aggregate_raises"} :
              IF db \in {"session_raises", "query_raises"}
              THEN Finish(Raised)
              ELSE IF grid = "empty"
                   THEN Finish(Skipped("no_data"))
                   ELSE IF db = "aggregate_raises"
                        THEN Finish(Raised)
                        ELSE IF grid = "outside"
                             THEN Finish(Skipped("no_gas_data"))
                             ELSE t_pc' = "write_rasters" /\ t_result' = Running
    /\ UNCHANGED <<settings, upesVars, alertVars>>
    /\ UNCHANGED <<retryVars, waitVars, ingestVars, callVars, sysVars>>

\* write_upes_rasters: ensure_dirs, the satellite raster, the final raster
UpesWriteRasters ==
    /\ t_pc = "write_rasters"
    /\ \E outcome \in {"ok", "dirs_fail", "sat_fails", "final_fails"} :
         CASE outcome = "ok" ->
                /\ sat_rasters' = Rewrite(sat_rasters, File(UpesHour, TRUE))
                /\ final_rasters' = Rewrite(final_rasters, File(UpesHour, TRUE))
                /\ t_writes' = t_writes \cup {"satellite_score", "final_score"}
                /\ t_pc' = "write_log"
                /\ UNCHANGED t_result
           [] outcome = "dirs_fail" ->
                /\ Finish(Raised)
                /\ UNCHANGED <<sat_rasters, final_rasters, t_writes>>
           [] outcome = "sat_fails" ->
                /\ sat_rasters' = Rewrite(sat_rasters, File(UpesHour, FALSE))
                /\ t_writes' = t_writes \cup {"satellite_score"}
                /\ Finish(Raised)
                /\ UNCHANGED final_rasters
           [] OTHER ->
                /\ sat_rasters' = Rewrite(sat_rasters, File(UpesHour, TRUE))
                /\ final_rasters' = Rewrite(final_rasters, File(UpesHour, FALSE))
                /\ t_writes' = t_writes \cup {"satellite_score", "final_score"}
                /\ Finish(Raised)
    /\ UNCHANGED <<settings, t_task, grid, upes_logs, upes_marker, legacy, alertVars>>
    /\ UNCHANGED <<retryVars, waitVars, ingestVars, callVars, sysVars>>

\* write_upes_log
UpesWriteLog ==
    /\ t_pc = "write_log"
    /\ \E written \in BOOLEAN :
         /\ upes_logs' = Rewrite(upes_logs, File(UpesHour, written))
         /\ IF written THEN t_pc' = "upes_marker" /\ UNCHANGED t_result
                       ELSE Finish(Raised)
    /\ t_writes' = t_writes \cup {"log"}
    /\ UNCHANGED <<settings, t_task, grid, sat_rasters, final_rasters, upes_marker,
                   legacy, alertVars>>
    /\ UNCHANGED <<retryVars, waitVars, ingestVars, callVars, sysVars>>

\* the Redis key in its try/except, and the return
UpesReturn ==
    /\ t_pc = "upes_marker"
    /\ \E reached \in BOOLEAN :
         IF settings.redis_url /\ reached
         THEN upes_marker' = TRUE /\ t_writes' = t_writes \cup {"upes:last_update"}
         ELSE UNCHANGED <<upes_marker, t_writes>>
    /\ Finish(Ok(0))
    /\ UNCHANGED <<settings, t_task, grid, sat_rasters, final_rasters, upes_logs,
                   legacy, alertVars>>
    /\ UNCHANGED <<retryVars, waitVars, ingestVars, callVars, sysVars>>

(***************************************************************************)
(* recompute_saved_route_exposure                                          *)
(***************************************************************************)
\* the session, the routes, MAX(timestamp); a bare `return` without data
RecomputeStart ==
    /\ Begin("recompute_saved_route_exposure")
    /\ t_writes' = {}
    /\ \E db \in {"ok", "session_raises", "query_raises"} :
         IF db # "ok"
         THEN Finish(Raised)
         ELSE IF grid = "empty"
              THEN Finish(ReturnedNone)
              ELSE t_pc' = "recompute_routes" /\ t_result' = Running
    /\ UNCHANGED <<settings, upesVars, alertVars>>
    /\ UNCHANGED <<retryVars, waitVars, ingestVars, callVars, sysVars>>

\* the loop over the routes (each in its try/except), the commit, and the
\* end of the function body
RecomputeRoutes ==
    /\ t_pc = "recompute_routes"
    /\ \E outcome \in [Routes -> {"score", "null", "raised"}], committed \in BOOLEAN :
         IF committed
         THEN /\ legacy' = [r \in Routes |->
                              IF outcome[r] = "raised" THEN legacy[r] ELSE outcome[r]]
              /\ t_writes' = IF \E r \in Routes : outcome[r] # "raised"
                             THEN {"saved_routes"} ELSE {}
              /\ Finish(ReturnedNone)
         ELSE /\ Finish(Raised)
              /\ UNCHANGED <<legacy, t_writes>>
    /\ UNCHANGED <<settings, t_task, grid, sat_rasters, final_rasters, upes_logs,
                   upes_marker, alertVars>>
    /\ UNCHANGED <<retryVars, waitVars, ingestVars, callVars, sysVars>>

(***************************************************************************)
(* compute_saved_route_upes_scores                                         *)
(* Scores are kept in millionths; a sampled value has one more digit.      *)
(***************************************************************************)
MaxScoreRuns == 2
MaxPipelineRuns == 2

\* hours between two scoring runs
ClockSteps == {1, 25}

\* what compute_upes_along_saved_route may return for a route: (mean, max)
\* in ten-millionths
Samples == {<<3000004, 8499994>>, <<4200006, 8499996>>}
SampleFails == <<-1, -1>>

RouteSeq == <<1, 2>>

\* round(x, 6): to the nearest millionth, ties to even
Round6(x) ==
    LET q == x \div 10
        r == x % 10
    IN  IF r > 5 \/ (r = 5 /\ q % 2 = 1) THEN q + 1 ELSE q

\* a route_exposure_history row
RouteExposureHistory(route_id, timestamp, upes_score, max_upes_along_route) ==
    [route_id |-> route_id, timestamp |-> timestamp, upes_score |-> upes_score,
     max_upes_along_route |-> max_upes_along_route]

\* get_latest_upes_raster_path(): is there any final_score_*.tif
LatestRasterExists == final_rasters # {}

\* the whole task: the raster lookup, the loop over the routes, one commit
ScoreRoutes ==
    /\ Begin("compute_saved_route_upes_scores")
    /\ score_runs < MaxScoreRuns
    /\ IF ~LatestRasterExists
       THEN /\ Finish(Skipped("no_raster"))
            /\ t_writes' = {}
            /\ UNCHANGED <<now, history, last_upes_score, score_runs>>
       ELSE \E db \in {"ok", "session_raises", "query_raises", "commit_raises"},
               dt \in ClockSteps,
               sample \in [Routes -> Samples \cup {SampleFails}] :
              IF db = "ok"
                 THEN LET scored == {r \in Routes : sample[r] # SampleFails} IN
                      /\ now' = IF scored = {} THEN now ELSE now + dt
                      /\ history' = [r \in Routes |->
                            IF r \in scored
                            THEN Append(history[r],
                                    RouteExposureHistory(r, now + dt, Round6(sample[r][1]),
                                                         Round6(sample[r][2])))
                            ELSE history[r]]
                      /\ last_upes_score' = [r \in Routes |->
                            IF r \in scored THEN Round6(sample[r][1])
                            ELSE last_upes_score[r]]
                      /\ t_writes' = IF scored = {} THEN {}
                                     ELSE {"route_exposure_history", "saved_routes"}
                      /\ score_runs' = IF scored = {} THEN score_runs ELSE score_runs + 1
                      /\ Finish(Ok(Cardinality(scored)))
                 ELSE /\ Finish(Raised)
                      /\ t_writes' = {}
                      /\ UNCHANGED <<now, history, last_upes_score, score_runs>>
    \* the frame of an earlier pipeline run is gone
    /\ a_i' = 0 /\ a_payload' = <<>> /\ posts' = <<>>
    /\ evaluated' = [r \in Routes |-> NotEvaluated]
    /\ UNCHANGED <<settings, upesVars, pipeline_runs, alert_log, a_pending>>
    /\ UNCHANGED <<retryVars, waitVars, ingestVars, callVars, sysVars>>

(***************************************************************************)
(* services/alerts/detection.py                                            *)
(***************************************************************************)
\* alerts_deterioration_base_pct (0.15) and the sensitivity scales, per mille
DeteriorationBasePermille == 150
\* alerts_hazard_threshold (0.85) and the time-based margin (0.15), millionths
HazardThreshold == 850000
TimeBasedMargin == 150000

\* user.exposure_sensitivity_level of the owner of a route (0: NULL)
SensitivityLevel(r) == IF r = 1 THEN 0 ELSE 5

\* one scale for every level
get_sensitivity_scale_flat(level) == 1000

\* get_sensitivity_scale, per mille
get_sensitivity_scale(level) ==
    CASE level \in {3, 4} -> 700
      [] level = 5 -> 500
      [] OTHER -> 1000

\* the alert dict; threshold in millionths (NoScore: None)
Alert(type, before, after, threshold) ==
    [type |-> type, score_before |-> before, score_after |-> after,
     threshold |-> threshold]

\* effective_pct = base * scale, per mille (150, 105 or 75)
EffectivePermille(level) ==
    (DeteriorationBasePermille * get_sensitivity_scale(level)) \div 1000

\* (curr - prev) / prev >= effective_pct
check_route_deterioration(prev, curr, level) ==
    IF prev = NoScore \/ prev <= 0 THEN <<>>
    ELSE IF (curr - prev) * 1000 >= prev * EffectivePermille(level)
         THEN <<Alert("route_deterioration", prev, curr, EffectivePermille(level) * 1000)>>
         ELSE <<>>

check_hazard_alert(max_upes) ==
    IF max_upes >= HazardThreshold
    THEN <<Alert("hazard", NoScore, max_upes, HazardThreshold)>>
    ELSE <<>>

\* alerts_wind_speed_min_kph and alerts_wind_angle_deg
WindSpeedMin == 5
WindAngleMax == 45

\* a point is <<lat, lon>> in tenths of a degree; <<>> is None
NoPoint == <<>>

\* _angle_diff_deg on whole degrees
angle_diff_deg(a1, a2) ==
    LET d == (IF a1 >= a2 THEN a1 - a2 ELSE a2 - a1) % 360
    IN  Min(d, 360 - d)

\* _bearing_deg for two points on one meridian: dlon = 0, so x = 0 and the
\* bearing is 0 (due north) or 180 (due south)
bearing_deg(p1, p2) == IF p2[1] >= p1[1] THEN 0 ELSE 180

check_wind_shift_alert(wind_kph, wind_degree, mid, source) ==
    IF wind_kph < WindSpeedMin THEN <<>>
    ELSE LET bearing_to_route == bearing_deg(source, mid)
             wind_toward == (wind_degree + 180) % 360
         IN  IF angle_diff_deg(bearing_to_route, wind_toward) <= WindAngleMax
             THEN <<Alert("wind_shift", NoScore, NoScore, NoScore)>>
             ELSE <<>>

check_time_based_alert(curr, recent_min) ==
    IF recent_min = NoScore THEN <<>>
    ELSE IF curr >= recent_min + TimeBasedMargin
         THEN <<Alert("time_based", recent_min, curr, TimeBasedMargin)>>
         ELSE <<>>

\* a run_detection that checks the wind whenever the weather is known
run_detection_any_source(current, max_upes, prev, recent_min, level, wind_kph, wind_degree, mid, source) ==
    (IF prev # NoScore THEN check_route_deterioration(prev, current, level) ELSE <<>>)
    \o check_hazard_alert(max_upes)
    \o (IF wind_kph # NoScore /\ wind_degree # NoScore /\ mid # NoPoint
        THEN check_wind_shift_alert(wind_kph, wind_degree, mid,
                                    IF source = NoPoint THEN <<0, 0>> ELSE source)
        ELSE <<>>)
    \o check_time_based_alert(current, recent_min)

\* run_detection: deterioration, hazard, wind shift, time-based, in this order
run_detection(current, max_upes, prev, recent_min, level, wind_kph, wind_degree, mid, source) ==
    (IF prev # NoScore THEN check_route_deterioration(prev, current, level) ELSE <<>>)
    \o check_hazard_alert(max_upes)
    \o (IF wind_kph # NoScore /\ wind_degree # NoScore /\ mid # NoPoint
           /\ source # NoPoint
        THEN check_wind_shift_alert(wind_kph, wind_degree, mid, source)
        ELSE <<>>)
    \o check_time_based_alert(current, recent_min)

(***************************************************************************)
(* run_alert_pipeline                                                      *)
(***************************************************************************)
Range(s) == {s[i] : i \in 1..Len(s)}

\* .order_by(desc(RouteExposureHistory.timestamp))
RECURSIVE OrderByTimestampDesc(_)
OrderByTimestampDesc(rows) ==
    IF rows = {} THEN <<>>
    ELSE LET m == CHOOSE e \in rows : \A f \in rows : f.timestamp <= e.timestamp
         IN  <<m>> \o OrderByTimestampDesc(rows \ {m})

\* .filter(route_id == r).order_by(desc(timestamp)).limit(2).all()
LatestTwo(r) ==
    LET all == OrderByTimestampDesc(Range(history[r]))
    IN  SubSeq(all, 1, Min(2, Len(all)))

\* a previous score read from the newest row
PrevOfNewest(rows) == IF Len(rows) >= 2 THEN rows[1].upes_score ELSE NoScore

\* prev = rows[1].upes_score if len(rows) >= 2 else None
PrevOf(rows) == IF Len(rows) >= 2 THEN rows[2].upes_score ELSE NoScore

RECURSIVE MinOf(_)
MinOf(S) == LET x == CHOOSE y \in S : TRUE
            IN  IF S = {x} THEN x ELSE Min(x, MinOf(S \ {x}))

\* func.min(upes_score) over the rows of the route with timestamp >= since
RecentMin(r, since) ==
    LET scores == {e.upes_score : e \in {f \in Range(history[r]) : f.timestamp >= since}}
    IN  IF scores = {} THEN NoScore ELSE MinOf(scores)

\* max_upes left at `max_upes = current_upes`
MaxUpesIsCurrent(current, rows) == current

\* max_upes: the newest row's max_upes_along_route when there is one
MaxUpes(current, rows) ==
    IF rows # <<>> /\ rows[1].max_upes_along_route # NoScore
    THEN rows[1].max_upes_along_route
    ELSE current

\* notification_preferences is None
NoPrefs == [none |-> TRUE]

\* prefs.get(key, default)
Get(prefs, key, default) == IF key \in DOMAIN prefs THEN prefs[key] ELSE default

\* the enabled channels and nothing else
channels_enabled_only(prefs) ==
    IF prefs = NoPrefs \/ DOMAIN prefs = {} THEN <<"in_app">>
    ELSE (IF Get(prefs, "email", FALSE) THEN <<"email">> ELSE <<>>)
         \o (IF Get(prefs, "push", FALSE) THEN <<"push">> ELSE <<>>)
         \o (IF Get(prefs, "in_app", TRUE) THEN <<"in_app">> ELSE <<>>)

\* _channels_from_preferences
channels_from_preferences(prefs) ==
    IF prefs = NoPrefs \/ DOMAIN prefs = {} THEN <<"in_app">>
    ELSE LET out == (IF Get(prefs, "email", FALSE) THEN <<"email">> ELSE <<>>)
                    \o (IF Get(prefs, "push", FALSE) THEN <<"push">> ELSE <<>>)
                    \o (IF Get(prefs, "in_app", TRUE) THEN <<"in_app">> ELSE <<>>)
         IN  IF out # <<>> THEN out ELSE <<"in_app">>

\* user.notification_preferences of the owner of a route
NotificationPreferences(r) ==
    IF r = 1 THEN NoPrefs ELSE [email |-> TRUE, in_app |-> FALSE]

\* the midpoint of a route, and what get_weather_data gives for it:
\* (wind_kph, wind_degree); nothing for route 1, a southerly wind for route 2
RouteMid(r) == <<340, -1180>>
Weather(r) == IF r = 1 THEN <<NoScore, NoScore>> ELSE <<10, 180>>

\* an alert_log row
AlertLog(run, route_id, a, channels) ==
    [run |-> run, route_id |-> route_id, alert_type |-> a.type,
     score_before |-> a.score_before, score_after |-> a.score_after,
     threshold |-> a.threshold, notified_channels |-> channels]

\* a webhook that is called whenever a URL is configured
ShouldPostAnyBatch(url, payload) == url

\* `if webhook_url and n8n_payload:`
ShouldPost(url, payload) == url /\ payload # <<>>

\* the flag, the session, the routes query
AlertStart ==
    /\ Begin("run_alert_pipeline")
    /\ pipeline_runs < MaxPipelineRuns
    /\ t_writes' = {}
    /\ a_pending' = <<>> /\ a_payload' = <<>> /\ posts' = <<>>
    /\ evaluated' = [r \in Routes |-> NotEvaluated]
    /\ IF ~settings.alerts_enabled
       THEN Finish(Skipped("disabled")) /\ a_i' = 0
       ELSE \E db \in {"ok", "session_raises", "query_raises"} :
              IF db = "ok"
              THEN t_pc' = "routes" /\ t_result' = Running /\ a_i' = 1
              ELSE Finish(Raised) /\ a_i' = 0
    /\ UNCHANGED <<settings, upesVars, last_upes_score, history, now, score_runs,
                   pipeline_runs, alert_log>>
    /\ UNCHANGED <<retryVars, waitVars, ingestVars, callVars, sysVars>>

\* one iteration of `for route in routes:`
AlertRoute ==
    /\ t_pc = "routes"
    /\ LET r == RouteSeq[a_i]
           current == last_upes_score[r]
           rows == LatestTwo(r)
           max_upes == MaxUpes(current, rows)
           prev == PrevOf(rows)
           recent_min == RecentMin(r, now - 24)
           next == IF a_i = Len(RouteSeq) THEN "commit" ELSE "routes"
       IN  IF current = NoScore
           THEN /\ a_i' = a_i + 1
                /\ t_pc' = next
                /\ UNCHANGED <<t_result, a_pending, a_payload, evaluated>>
           ELSE \E db \in {"ok", "query_raises", "flush_raises"} :
                  LET w == Weather(r)
                      alerts == run_detection(current, max_upes, prev, recent_min, SensitivityLevel(r), w[1], w[2], RouteMid(r), NoPoint)
                      channels == channels_from_preferences(NotificationPreferences(r))
                      logs == [i \in 1..Len(alerts) |->
                                 AlertLog(pipeline_runs + 1, r, alerts[i], channels)]
                  IN
                  IF db = "query_raises" \/ (db = "flush_raises" /\ alerts # <<>>)
                  THEN /\ Finish(Raised)
                       /\ a_pending' = <<>>
                       /\ UNCHANGED <<a_i, a_payload, evaluated>>
                  ELSE /\ a_pending' = a_pending \o logs
                       /\ a_payload' = a_payload \o logs
                       /\ evaluated' = [evaluated EXCEPT ![r] =
                             [done |-> TRUE, current |-> current, max |-> max_upes,
                              prev |-> prev, recent_min |-> recent_min,
                              wind_kph |-> w[1], source |-> NoPoint, alerts |-> alerts]]
                       /\ a_i' = a_i + 1
                       /\ t_pc' = next
                       /\ UNCHANGED t_result
    /\ UNCHANGED <<settings, t_task, t_writes, upesVars, last_upes_score, history,
                   now, score_runs, pipeline_runs, alert_log, posts>>
    /\ UNCHANGED <<retryVars, waitVars, ingestVars, callVars, sysVars>>

\* session.commit()
AlertCommit ==
    /\ t_pc = "commit"
    /\ \E committed \in BOOLEAN :
         IF committed
         THEN /\ alert_log' = alert_log \o a_pending
              /\ pipeline_runs' = IF a_pending = <<>> THEN pipeline_runs
                                  ELSE pipeline_runs + 1
              /\ t_writes' = IF a_pending = <<>> THEN t_writes ELSE t_writes \cup {"alert_log"}
              /\ t_pc' = "webhook"
              /\ UNCHANGED t_result
         ELSE /\ Finish(Raised)
              /\ UNCHANGED <<alert_log, t_writes, pipeline_runs>>
    /\ a_pending' = <<>>
    /\ UNCHANGED <<settings, t_task, upesVars, last_upes_score, history, now,
                   score_runs, a_i, a_payload, evaluated, posts>>
    /\ UNCHANGED <<retryVars, waitVars, ingestVars, callVars, sysVars>>

\* the webhook POST in its try/except
AlertWebhook ==
    /\ t_pc = "webhook"
    /\ IF ShouldPost(settings.alerts_n8n_webhook_url, a_payload)
       THEN \E outcome \in {"200", "404", "500", "exception"} :
              posts' = Append(posts, outcome)
       ELSE UNCHANGED posts
    /\ t_pc' = "return"
    /\ UNCHANGED <<settings, t_task, t_result, t_writes, upesVars, last_upes_score,
                   history, now, score_runs, pipeline_runs, alert_log, a_i,
                   a_pending, a_payload, evaluated>>
    /\ UNCHANGED <<retryVars, waitVars, ingestVars, callVars, sysVars>>

\* return {"status": "ok", "alerts_count": alert_count}
AlertReturn ==
    /\ t_pc = "return"
    /\ Finish(Ok(Len(a_payload)))
    /\ UNCHANGED <<settings, t_task, t_writes, upesVars, alertVars>>
    /\ UNCHANGED <<retryVars, waitVars, ingestVars, callVars, sysVars>>

(***************************************************************************)
(* pollution_utils.classify_pollution_level and                             *)
(* services.raster_normalizer.geotiff_to_grid_rows                          *)
(*                                                                         *)
(* A pixel value is a float64.  The values that matter here are NaN and    *)
(* decimals of two significant digits between 0.2 and 1e20, so a value is  *)
(* kept as m * 10^e with 10 <= |m| <= 99 (or m = 0, e = 0), and compared   *)
(* as the floats compare.                                                  *)
(***************************************************************************)
NaN == [nan |-> TRUE, m |-> 0, e |-> 0]
Num(m, e) == [nan |-> FALSE, m |-> m, e |-> e]

\* np.isnan(value)
isnan(v) == v.nan

\* a >= b on floats; any comparison with NaN is False
GE(a, b) ==
    /\ ~a.nan /\ ~b.nan
    /\ IF a.m > 0 /\ b.m > 0 THEN a.e > b.e \/ (a.e = b.e /\ a.m >= b.m)
       ELSE IF a.m < 0 /\ b.m < 0 THEN b.e > a.e \/ (b.e = a.e /\ a.m >= b.m)
       ELSE a.m >= b.m

\* abs(value)
Abs(v) == [v EXCEPT !.m = IF v.m < 0 THEN -v.m ELSE v.m]

POLLUTION_THRESHOLDS ==
    [NO2  |-> [moderate |-> Num(50, 14), unhealthy |-> Num(10, 15),
               very_unhealthy |-> Num(20, 15), hazardous |-> Num(30, 15)],
     CH2O |-> [moderate |-> Num(80, 14), unhealthy |-> Num(16, 15),
               very_unhealthy |-> Num(32, 15), hazardous |-> Num(64, 15)],
     AI   |-> [moderate |-> Num(10, -1), unhealthy |-> Num(20, -1),
               very_unhealthy |-> Num(40, -1), hazardous |-> Num(70, -1)],
     PM   |-> [moderate |-> Num(20, -2), unhealthy |-> Num(50, -2),
               very_unhealthy |-> Num(10, -1), hazardous |-> Num(20, -1)],
     O3   |-> [moderate |-> Num(22, 1), unhealthy |-> Num(28, 1),
               very_unhealthy |-> Num(40, 1), hazardous |-> Num(50, 1)]]

\* the same cascade with > in place of >=
classify_strictly_above(value, g) ==
    IF isnan(value) \/ g \notin DOMAIN POLLUTION_THRESHOLDS THEN <<"no_data", 0>>
    ELSE LET thresholds == POLLUTION_THRESHOLDS[g] IN
         IF ~GE(thresholds.hazardous, value) THEN <<"hazardous", 4>>
         ELSE IF ~GE(thresholds.very_unhealthy, value) THEN <<"very_unhealthy", 3>>
         ELSE IF ~GE(thresholds.unhealthy, value) THEN <<"unhealthy", 2>>
         ELSE IF ~GE(thresholds.moderate, value) THEN <<"moderate", 1>>
         ELSE <<"good", 0>>

\* classify_pollution_level(value, gas) -> (level, severity)
classify_pollution_level(value, g) ==
    IF isnan(value) \/ g \notin DOMAIN POLLUTION_THRESHOLDS THEN <<"no_data", 0>>
    ELSE LET thresholds == POLLUTION_THRESHOLDS[g] IN
         IF GE(value, thresholds.hazardous) THEN <<"hazardous", 4>>
         ELSE IF GE(value, thresholds.very_unhealthy) THEN <<"very_unhealthy", 3>>
         ELSE IF GE(value, thresholds.unhealthy) THEN <<"unhealthy", 2>>
         ELSE IF GE(value, thresholds.moderate) THEN <<"moderate", 1>>
         ELSE <<"good", 0>>

\* FILL_VALUE_THRESHOLD of the analysis script: the ceiling above which a
\* value is a satellite fill sentinel (1e18 for NO2 and CH2O, 1e10 otherwise)
FILL_VALUE_THRESHOLD(g) == IF g \in {"NO2", "CH2O"} THEN Num(10, 17) ELSE Num(10, 9)

\* int(x ** 0.5) for an integer x >= 0
ISqrt(x) == CHOOSE k \in 0..x : k * k <= x /\ (k + 1) * (k + 1) > x

\* step, with subsample = None as fetch_tempo_hourly calls the generator:
\* int() of the square root of total_pixels / max_cells equals the integer
\* square root of the floor quotient
Step(r) ==
    LET total_pixels == r.height * r.width IN
    IF total_pixels > r.max_cells
    THEN LET root == ISqrt(total_pixels \div r.max_cells)
         IN  IF root >= 1 THEN root ELSE 1
    ELSE 1

Cell(g, i, j, val) ==
    [gas_type |-> g, geom_wkt |-> <<i, j>>, pollution_value |-> val,
     severity_level |-> classify_pollution_level(val, g)[2]]

NormIdle ==
    /\ n_pc = "idle"
    /\ raster = [gas_type |-> "NO2", band |-> <<>>, height |-> 0, width |-> 0,
                 max_cells |-> 0]
    /\ n_i = 0 /\ n_j = 0 /\ n_count = 0
    /\ n_chunk = <<>> /\ n_read = <<>> /\ n_yield = <<>>

\* one pass of the inner loop body: lines 88-106
NormPixel ==
    /\ n_pc = "scan"
    /\ n_i < raster.height /\ n_count < raster.max_cells
    /\ LET val == raster.band[n_i + 1][n_j + 1]
           emit == ~isnan(val)
           chunk1 == IF emit
                     THEN Append(n_chunk, Cell(raster.gas_type, n_i, n_j, val))
                     ELSE n_chunk
           count1 == IF emit THEN n_count + 1 ELSE n_count
           step == Step(raster)
       IN /\ n_read' = Append(n_read, <<n_i, n_j>>)
          /\ n_count' = count1
          /\ IF Len(chunk1) >= ChunkSize
             THEN n_yield' = Append(n_yield, chunk1) /\ n_chunk' = <<>>
             ELSE n_chunk' = chunk1 /\ UNCHANGED n_yield
          /\ IF n_j + step < raster.width /\ count1 < raster.max_cells
             THEN n_j' = n_j + step /\ UNCHANGED n_i
             ELSE n_j' = 0 /\ n_i' = n_i + step
    /\ UNCHANGED <<n_pc, raster>>
    /\ UNCHANGED <<appVars, sysVars, detectVars, scoreVars, pathVars>>

\* the loops end (range exhausted or count >= max_cells): lines 107-108
NormTail ==
    /\ n_pc = "scan"
    /\ (n_i >= raster.height \/ n_count >= raster.max_cells)
    /\ n_yield' = IF n_chunk # <<>> THEN Append(n_yield, n_chunk) ELSE n_yield
    /\ n_chunk' = <<>>
    /\ n_pc' = "done"
    /\ UNCHANGED <<raster, n_i, n_j, n_count, n_read>>
    /\ UNCHANGED <<appVars, sysVars, detectVars, scoreVars, pathVars>>

(***************************************************************************)
(* One call of check_route_deterioration or _channels_from_preferences     *)
(***************************************************************************)
DetectIdle == d_pc = "idle" /\ d_call = [fn |-> "none"] /\ d_ret = <<>>

CallDeterioration ==
    /\ d_pc = "call" /\ d_call.fn = "check_route_deterioration"
    /\ d_ret' = check_route_deterioration(d_call.prev, d_call.curr, d_call.level)
    /\ d_pc' = "returned"
    /\ UNCHANGED <<d_call, appVars, sysVars, normVars, scoreVars, pathVars>>

CallChannels ==
    /\ d_pc = "call" /\ d_call.fn = "_channels_from_preferences"
    /\ d_ret' = channels_from_preferences(d_call.prefs)
    /\ d_pc' = "returned"
    /\ UNCHANGED <<d_call, appVars, sysVars, normVars, scoreVars, pathVars>>

(***************************************************************************)
(* services/upes/core.py: compute_final_score and apply_ema, as            *)
(* compute_upes_hourly runs them every hour.                               *)
(*                                                                         *)
(* A score is a whole number of 1/Unit; Unit is chosen so that the         *)
(* products by halves and tenths stay whole for MaxHours hours.            *)
(***************************************************************************)
MaxHours == 3
Unit == 80 * 10 ^ MaxHours

\* np.nan in an array of scores
nan == -1

\* upes_traffic_alpha = 0.1: TF_max = 1 + alpha, in tenths
TFMaxTenths == 11

\* apply_ema without the (1 - lam) weight on the previous score
apply_ema_unweighted(current_score, previous_score, lam) ==
    IF previous_score = <<>> \/ Len(previous_score) # Len(current_score)
    THEN current_score
    ELSE [c \in 1..Len(current_score) |->
            IF current_score[c] = nan \/ previous_score[c] = nan THEN nan
            ELSE (lam * current_score[c]) \div 10 + previous_score[c]]

\* apply_ema: lam * current + (1 - lam) * previous, NaN wherever either is NaN
apply_ema(current_score, previous_score, lam) ==
    IF previous_score = <<>> \/ Len(previous_score) # Len(current_score)
    THEN current_score
    ELSE [c \in 1..Len(current_score) |->
            IF current_score[c] = nan \/ previous_score[c] = nan THEN nan
            ELSE (lam * current_score[c] + (10 - lam) * previous_score[c]) \div 10]

\* raw = satellite_score * hdf * wtf * tf (hdf and wtf in halves, tf in tenths)
RawScore(in) ==
    [c \in 1..Len(in.sat) |->
        IF in.sat[c] = nan THEN nan
        ELSE (in.sat[c] * in.hdf * in.wtf * in.tf) \div 40]

\* compute_final_score
compute_final_score(in, ema_lambda) ==
    IF ema_lambda # NoScore /\ 0 < ema_lambda /\ ema_lambda <= 10
    THEN apply_ema(RawScore(in), in.previous_final, ema_lambda)
    ELSE RawScore(in)

ScoreIdle ==
    /\ u_pc = "idle" /\ u_hour = 0 /\ u_lambda = NoScore /\ u_file = <<>>
    /\ u_in = [sat |-> <<>>, hdf |-> 0, wtf |-> 0, tf |-> 0, previous_final |-> <<>>]
    /\ u_final = <<>>

\* lines 261-304: satellite score, weather factors, the previous raster
\* (read only with a lambda configured and only when its shape matches),
\* compute_final_score
ScoreCompute ==
    /\ u_pc = "compute" /\ u_hour < MaxHours
    \* satellite_score of a two-cell grid; humidity 50 % or 0 %; no wind or a
    \* 50 km/h wind along the target direction; no traffic data
    /\ \E sat \in {<<Unit, 0>>, <<Unit \div 2, Unit \div 2>>, <<nan, Unit>>},
          hdf \in {1, 2}, wtf \in {0, 2} :
         LET prev == IF u_lambda # NoScore /\ Len(u_file) = Len(sat)
                     THEN u_file ELSE <<>>
             in == [sat |-> sat, hdf |-> hdf, wtf |-> wtf, tf |-> 10,
                    previous_final |-> prev]
         IN  /\ u_in' = in
             /\ u_final' = compute_final_score(in, u_lambda)
    /\ u_pc' = "write"
    /\ UNCHANGED <<u_hour, u_lambda, u_file>>
    /\ UNCHANGED <<appVars, sysVars, normVars, detectVars, pathVars>>

\* write_upes_rasters: the final raster of this hour is the previous raster
\* of the next; a failed write leaves none to read
ScoreWrite ==
    /\ u_pc = "write"
    /\ \E written \in BOOLEAN : u_file' = IF written THEN u_final ELSE <<>>
    /\ u_hour' = u_hour + 1
    /\ u_pc' = "compute"
    /\ UNCHANGED <<u_lambda, u_in, u_final>>
    /\ UNCHANGED <<appVars, sysVars, normVars, detectVars, pathVars>>

(***************************************************************************)
(* services/route_optimization/pathfinding.py                              *)
(*                                                                         *)
(* A graph is [multi, nodes, edges]; an edge is [u, v, key, weight,        *)
(* length_m, mean_upes, time_h] with weight in hundredths, mean_upes in    *)
(* tenths and time_h in thousandths of an hour.  On such values the        *)
(* round() calls of the route dict change nothing.                         *)
(***************************************************************************)
MaxK == 3

Edge(u, v, key, weight, length_m, mean_upes, time_h) ==
    [u |-> u, v |-> v, key |-> key, weight |-> weight, length_m |-> length_m,
     mean_upes |-> mean_upes, time_h |-> time_h]

\* the diamond of _make_simple_graph
Diamond ==
    {Edge(1, 2, 0, 40, 1000, 3, 50), Edge(2, 3, 0, 50, 800, 5, 40),
     Edge(1, 4, 0, 35, 1200, 2, 60), Edge(4, 3, 0, 45, 900, 4, 45)}

\* what `edge` holds after line 33-38.  On a MultiDiGraph get_edge_data(u, v)
\* is the dict of all edges from u to v keyed by edge key: it is not empty,
\* so lines 36-38 are skipped, and it has none of the attribute names, so
\* every edge.get(...) below gives its default.  On a DiGraph it is the
\* attribute dict of the edge.
get_edge_data(G, u, v) ==
    IF G.multi
    THEN Edge(u, v, 0, 0, 0, 5, 0)
    ELSE CHOOSE e \in G.edges : e.u = u /\ e.v = v

\* _route_geometry_and_metrics without the coordinates:
\* total_exposure, distance (m), time_h, total_cost
RECURSIVE route_geometry_and_metrics(_, _)
route_geometry_and_metrics(G, node_path) ==
    IF Len(node_path) < 2
    THEN [exposure |-> 0, distance_m |-> 0, time_h |-> 0, cost |-> 0]
    ELSE LET edge == get_edge_data(G, node_path[1], node_path[2])
             rest == route_geometry_and_metrics(G, Tail(node_path))
             \* t = edge.get("time_h") or (length_km / 15.0)
             t == IF edge.time_h # 0 THEN edge.time_h ELSE edge.length_m \div 15
         IN  [exposure |-> edge.mean_upes * edge.length_m + rest.exposure,
              distance_m |-> edge.length_m + rest.distance_m,
              time_h |-> t + rest.time_h,
              cost |-> edge.weight + rest.cost]

\* the route dict: time_min = time_h * 60
Route(G, node_path) ==
    LET r == route_geometry_and_metrics(G, node_path) IN
    [nodes |-> node_path, exposure |-> r.exposure, distance_m |-> r.distance_m,
     time_min |-> r.time_h * 60, cost |-> r.cost]

\* _to_simple_digraph: per (u, v) the first edge of minimum weight
to_simple_digraph(G) ==
    IF ~G.multi THEN G
    ELSE [G EXCEPT !.multi = FALSE,
                   !.edges = {e \in G.edges : \A f \in G.edges :
                                 (f.u = e.u /\ f.v = e.v) =>
                                    \/ e.weight < f.weight
                                    \/ (e.weight = f.weight /\ e.key <= f.key)}]

\* the simple paths that extend `path` to tgt: what nx.shortest_path and
\* nx.shortest_simple_paths choose from
RECURSIVE PathsFrom(_, _, _)
PathsFrom(H, node_path, tgt) ==
    IF Last(node_path) = tgt THEN {node_path}
    ELSE UNION {PathsFrom(H, Append(node_path, e.v), tgt) :
                  e \in {f \in H.edges : f.u = Last(node_path) /\ f.v \notin Range(node_path)}}

\* the total weight of a path of a simple graph
RECURSIVE PathWeight(_, _)
PathWeight(H, node_path) ==
    IF Len(node_path) < 2 THEN 0
    ELSE (CHOOSE e \in H.edges : e.u = node_path[1] /\ e.v = node_path[2]).weight
         + PathWeight(H, Tail(node_path))

PathIdle ==
    /\ p_pc = "idle" /\ p_ret = <<>>
    /\ p_call = [fn |-> "none", G |-> [multi |-> TRUE, nodes |-> {}, edges |-> {}],
                 src |-> 0, tgt |-> 0, k |-> 0]

\* shortest_path_optimized: nx.shortest_path takes the minimum over parallel
\* edges, and any path of minimum weight may come back
CallShortest ==
    /\ p_pc = "call" /\ p_call.fn = "shortest_path_optimized"
    /\ LET G == p_call.G
           H == to_simple_digraph(G)
           paths == IF G.nodes = {} \/ p_call.src = 0 \/ p_call.tgt = 0 THEN {}
                    ELSE PathsFrom(H, <<p_call.src>>, p_call.tgt)
           best == {q \in paths : \A o \in paths : PathWeight(H, q) <= PathWeight(H, o)}
       IN  IF best = {} THEN p_ret' = <<>>
           ELSE \E node_path \in best :
                   p_ret' = IF Len(node_path) < 2 THEN <<>> ELSE <<Route(G, node_path)>>
    /\ p_pc' = "returned"
    /\ UNCHANGED <<p_call, appVars, sysVars, normVars, detectVars, scoreVars>>

\* k_shortest_paths: shortest_simple_paths yields the simple paths of G_simple
\* by non-decreasing weight, ties in any order
CallKShortest ==
    /\ p_pc = "call" /\ p_call.fn = "k_shortest_paths"
    /\ LET G == p_call.G
           G_simple == to_simple_digraph(G)
           paths == IF G.nodes = {} \/ p_call.src = 0 \/ p_call.tgt = 0 THEN {}
                    ELSE PathsFrom(G_simple, <<p_call.src>>, p_call.tgt)
           n == Cardinality(paths)
       IN  \E order \in [1..n -> paths] :
              /\ \A i, j \in 1..n : i < j =>
                    /\ order[i] # order[j]
                    /\ PathWeight(G_simple, order[i]) <= PathWeight(G_simple, order[j])
              /\ LET long == SelectSeq(order, LAMBDA q : Len(q) >= 2)
                     taken == SubSeq(long, 1, Min(p_call.k, Len(long)))
                 IN  p_ret' = [i \in 1..Len(taken) |-> Route(G, taken[i])]
    /\ p_pc' = "returned"
    /\ UNCHANGED <<p_call, appVars, sysVars, normVars, detectVars, scoreVars>>

(***************************************************************************)
(* celery_app.py: the beat schedule.  Beat wakes every minute and sends     *)
(* the task of every entry whose crontab is due; the worker takes the       *)
(* messages on its own.                                                     *)
(***************************************************************************)
MaxBeatHours == 2

\* app.conf.beat_schedule, in the order of the dict
beat_schedule ==
    << [task |-> "fetch_tempo_hourly",              minute |-> 0],
       [task |-> "compute_upes_hourly",             minute |-> 15],
       [task |-> "compute_saved_route_upes_scores", minute |-> 20],
       [task |-> "run_alert_pipeline",              minute |-> 25] >>

BeatTasks == {beat_schedule[i].task : i \in DOMAIN beat_schedule}

\* a schedule that holds an entry back while a task is still running
is_due_when_workers_free(entry, clock) ==
    /\ clock % 60 = entry.minute
    /\ \A t \in BeatTasks : b_worker[t] # "running"

\* crontab(minute=m): hour, day and month are '*'
is_due(entry, clock) == clock % 60 = entry.minute

\* the entries due at minute `clock`, as messages, in schedule order
RECURSIVE DueFrom(_, _)
DueFrom(i, clock) ==
    IF i > Len(beat_schedule) THEN <<>>
    ELSE (IF is_due(beat_schedule[i], clock)
          THEN <<[task |-> beat_schedule[i].task, at |-> clock]>> ELSE <<>>)
         \o DueFrom(i + 1, clock)

BeatIdle ==
    /\ b_clock = 0 /\ b_sent = <<>>
    /\ b_worker = [t \in BeatTasks |-> "idle"]

\* beat's tick: the next minute begins and every due entry is sent
BeatTick ==
    /\ b_clock < 60 * (MaxBeatHours + 1) - 1
    /\ b_clock' = b_clock + 1
    /\ b_sent' = b_sent \o DueFrom(1, b_clock + 1)
    /\ UNCHANGED b_worker

\* the worker takes a message of task t
WorkerStart(t) ==
    /\ b_worker[t] # "running"
    /\ \E i \in DOMAIN b_sent : b_sent[i].task = t
    /\ b_worker' = [b_worker EXCEPT ![t] = "running"]
    /\ UNCHANGED <<b_clock, b_sent>>

\* task t returns a dict with status ok or skipped, or raises
WorkerEnd(t, outcome) ==
    /\ b_worker[t] = "running"
    /\ b_worker' = [b_worker EXCEPT ![t] = outcome]
    /\ UNCHANGED <<b_clock, b_sent>>

(***************************************************************************)
(* cache.py: cache_get and cache_set over an optional Redis.               *)
(* Python values are records [t, v] of a type and a content;              *)
(* json.dumps(value, default=str) turns a datetime into its str() and a     *)
(* tuple into a list, json.loads gives back what the text denotes.         *)
(***************************************************************************)
MaxCacheTime == 3

None == [t |-> "null", v |-> 0]
NoEntry == [t |-> "absent"]

\* a serializer that writes str(value) for every value
json_dumps_str(value) == [text |-> [t |-> "str", v |-> value.v]]

\* json.dumps(value, default=str): the JSON text, named by the value it denotes
json_dumps(value) ==
    [text |-> CASE value.t = "datetime" -> [t |-> "str", v |-> value.v]
                [] value.t = "tuple"    -> [t |-> "list", v |-> value.v]
                [] OTHER                -> value]

json_loads(raw) == raw.text

\* redis.get(key): the stored text unless the key has expired
redis_get(key) ==
    IF c_store[key] # NoEntry /\ c_time < c_store[key].expires
    THEN c_store[key].raw ELSE NoEntry

CacheKeys == {"weather:34.0:-118.0:1", "pollutant_movement:34.0:-118.0"}

CacheIdle ==
    /\ c_redis = "none" /\ c_time = 0
    /\ c_store = [k \in CacheKeys |-> NoEntry]
    /\ c_set = [k \in CacheKeys |-> NoEntry]
    /\ c_last = [op |-> "none"]

cache_get(key) ==
    /\ c_last' = [op |-> "get", key |-> key, at |-> c_time, raised |-> FALSE,
                  ret |-> IF c_redis = "none" THEN None
                          ELSE IF c_redis = "down" THEN None   \* except Exception
                          ELSE IF redis_get(key) = NoEntry THEN None
                          ELSE json_loads(redis_get(key))]
    /\ UNCHANGED <<c_redis, c_store, c_time, c_set>>

cache_set(key, value, ttl) ==
    /\ c_last' = [op |-> "set", key |-> key, at |-> c_time, raised |-> FALSE,
                  ret |-> None]
    /\ c_set' = [c_set EXCEPT ![key] = [value |-> value, ttl |-> ttl, at |-> c_time]]
    /\ c_store' = IF c_redis = "up"
                  THEN [c_store EXCEPT ![key] =
                           [raw |-> json_dumps(value), expires |-> c_time + ttl]]
                  ELSE c_store                                   \* return / pass
    /\ UNCHANGED <<c_redis, c_time>>

\* a second passes
CacheClock ==
    /\ c_time < MaxCacheTime
    /\ c_time' = c_time + 1
    /\ UNCHANGED <<c_redis, c_store, c_set, c_last>>

(***************************************************************************)
(* harmony_service.py: get_bearer_token.  A response is [kind, code, body]; *)
(* kind "exc" is a requests exception, body is the parsed JSON: a list of   *)
(* token documents, a document, or "invalid" when r.json() raises.         *)
(***************************************************************************)
MaxTokenCalls == 2

TokenDoc(tok) == [access_token |-> tok]

\* what GET /api/users/tokens may answer
ListResponses ==
    { [kind |-> "exc", code |-> 0, body |-> <<>>],
      [kind |-> "http", code |-> 401, body |-> <<>>],
      [kind |-> "http", code |-> 200, body |-> <<>>],
      [kind |-> "http", code |-> 200, body |-> <<TokenDoc("listed1"), TokenDoc("listed2")>>],
      [kind |-> "http", code |-> 200, body |-> <<TokenDoc("None"), TokenDoc("listed2")>>],
      [kind |-> "json_error", code |-> 200, body |-> <<>>],
      [kind |-> "document", code |-> 200, body |-> <<TokenDoc("listed1")>>] }

\* what POST /api/users/token may answer
MintResponses ==
    { [kind |-> "exc", code |-> 0, body |-> <<>>],
      [kind |-> "http", code |-> 403, body |-> <<>>],
      [kind |-> "document", code |-> 200, body |-> <<TokenDoc("minted")>>],
      [kind |-> "document", code |-> 200, body |-> <<TokenDoc("None")>>] }

\* a listing that is never taken to hold a token
Listed_nothing(resp) == <<>>

\* the listing when it is a non-empty list of a 200 answer, else <<>>
Listed(resp) ==
    IF resp.kind = "http" /\ resp.code = 200 THEN resp.body ELSE <<>>

TokenIdle ==
    /\ k_pc = "idle" /\ k_requests = <<>> /\ k_ret = "None"
    /\ k_calls = 0 /\ k_first = 0
    /\ k_settings = [bearer_token |-> "", earthdata_username |-> "",
                     earthdata_password |-> ""]

\* the two tests on the settings
TokenConfig ==
    /\ k_pc = "config"
    /\ IF k_settings.bearer_token # ""
       THEN k_pc' = "returned" /\ k_ret' = k_settings.bearer_token
       ELSE IF k_settings.earthdata_username = "" \/ k_settings.earthdata_password = ""
       THEN k_pc' = "returned" /\ k_ret' = "None"
       ELSE k_pc' = "list" /\ k_ret' = k_ret
    /\ UNCHANGED <<k_settings, k_calls, k_first, k_requests>>

\* requests.get(URSA_TOKENS_URL) and the handling of its answer
TokenList(resp) ==
    /\ k_pc = "list"
    /\ k_requests' = Append(k_requests, [method |-> "GET", resp |-> resp])
    /\ IF resp.kind \in {"exc", "json_error"}
       THEN k_pc' = "returned" /\ k_ret' = "None"        \* except Exception
       ELSE IF Listed(resp) # <<>>
       THEN k_pc' = "returned" /\ k_ret' = Listed(resp)[1].access_token
       ELSE k_pc' = "mint" /\ k_ret' = k_ret
    /\ UNCHANGED <<k_settings, k_calls, k_first>>

\* requests.post(URSA_TOKEN_URL), raise_for_status and the document's token
TokenMint(resp) ==
    /\ k_pc = "mint"
    /\ k_requests' = Append(k_requests, [method |-> "POST", resp |-> resp])
    /\ k_pc' = "returned"
    /\ k_ret' = IF resp.kind = "document" /\ resp.code = 200
                THEN resp.body[1].access_token ELSE "None"
    /\ UNCHANGED <<k_settings, k_calls, k_first>>

\* fetch_tempo_geotiff of the next gas calls get_bearer_token again
TokenCall ==
    /\ k_pc = "returned"
    /\ k_calls < MaxTokenCalls
    /\ k_pc' = "config" /\ k_ret' = "None"
    /\ k_calls' = k_calls + 1
    /\ k_first' = Len(k_requests)
    /\ UNCHANGED <<k_settings, k_requests>>

(***************************************************************************)
(* The 15-minute UPES task writing final_score_{hour}.tif while the         *)
(* 20-minute scoring task looks the newest file up and samples it.  What a  *)
(* reader finds in a file that is still being written is not determined:    *)
(* the open may fail (the sampler then returns its fallback) or succeed on  *)
(* partly written data.                                                    *)
(***************************************************************************)
NoFile == [state |-> "absent", mtime |-> 0]

\* a lookup that skips files whose writer has not closed them
latest_whole(files) ==
    LET tifs == {h \in DOMAIN files : files[h].state = "whole"} IN
    IF tifs = {} THEN NoScore
    ELSE CHOOSE h \in tifs : \A g \in tifs : files[g].mtime <= files[h].mtime

\* get_latest_upes_raster_path: the final_score_*.tif of greatest st_mtime
get_latest_upes_raster_path(files) ==
    LET tifs == {h \in DOMAIN files : files[h].state # "absent"} IN
    IF tifs = {} THEN NoScore
    ELSE CHOOSE h \in tifs : \A g \in tifs : files[g].mtime <= files[h].mtime

RaceIdle ==
    /\ x_files = [h \in {PrevHour, UpesHour} |-> NoFile]
    /\ x_tick = 0 /\ x_upes = "idle" /\ x_score = "idle"
    /\ x_seen = [h \in {PrevHour, UpesHour} |-> NoFile]
    /\ x_path = NoScore /\ x_hist = <<>> /\ x_result = Running

\* write_geotiff: rasterio.open(final_path, "w") creates or truncates the file
RaceOpen ==
    /\ x_upes = "idle"
    /\ x_upes' = "writing"
    /\ x_tick' = x_tick + 1
    /\ x_files' = [x_files EXCEPT ![UpesHour] = [state |-> "partial", mtime |-> x_tick + 1]]
    /\ UNCHANGED <<x_score, x_seen, x_path, x_hist, x_result>>

\* write_geotiff: dst.write and the close of the dataset, or an exception
RaceClose ==
    /\ x_upes = "writing"
    /\ x_tick' = x_tick + 1
    /\ \E ok \in BOOLEAN :
         /\ x_upes' = IF ok THEN "done" ELSE "raised"
         /\ x_files' = [x_files EXCEPT ![UpesHour] =
                           [state |-> IF ok THEN "whole" ELSE "partial",
                            mtime |-> x_tick + 1]]
    /\ UNCHANGED <<x_score, x_seen, x_path, x_hist, x_result>>

\* compute_saved_route_upes_scores: the lookup and the skip without a file
RaceLookup ==
    /\ x_score = "lookup"
    /\ x_seen' = x_files
    /\ x_path' = get_latest_upes_raster_path(x_files)
    /\ IF get_latest_upes_raster_path(x_files) = NoScore
       THEN x_score' = "done" /\ x_result' = Skipped("no_raster")
       ELSE x_score' = "sampling" /\ x_result' = x_result
    /\ UNCHANGED <<x_files, x_tick, x_upes, x_hist>>

\* the loop body for the next route: sample the file as it is now, add the row
RaceSample ==
    /\ x_score = "sampling"
    /\ \E read \in IF x_files[x_path].state = "whole"
                   THEN {"data"} ELSE {"fallback", "partial_data"} :
         x_hist' = Append(x_hist, [route_id |-> RouteSeq[Len(x_hist) + 1],
                                   file |-> x_path, read |-> read])
    /\ x_score' = IF Len(x_hist) + 1 = Len(RouteSeq) THEN "commit" ELSE "sampling"
    /\ UNCHANGED <<x_files, x_tick, x_upes, x_seen, x_path, x_result>>

\* session.commit() and the return
RaceCommit ==
    /\ x_score = "commit"
    /\ x_score' = "done"
    /\ x_result' = Ok(Len(x_hist))
    /\ UNCHANGED <<x_files, x_tick, x_upes, x_seen, x_path, x_hist>>

(***************************************************************************)
(* services/route_optimization/weights.py and graph_builder.py.  An OSM     *)
(* tag value is [t, s, l]: absent ("none"), a string s, or a list l of      *)
(* strings (OSMnx merges the tags of simplified edges into lists).          *)
(* Modifiers are in hundredths.                                            *)
(***************************************************************************)
NoTag == [t |-> "none", s |-> "", l |-> <<>>]
Str(s) == [t |-> "str", s |-> s, l |-> <<>>]
List(l) == [t |-> "list", s |-> "", l |-> l]

\* outcome of an expression: a value or an exception
Value(x) == [raised |-> FALSE, value |-> x]
AttributeError == [raised |-> TRUE, value |-> 0]

\* a reading of the tag that tests for a list before lowering
highway_of_list_first(edge_data) ==
    LET tag == edge_data.highway IN
    IF tag.t = "list" THEN Value(IF tag.l # <<>> THEN tag.l[1] ELSE "")
    ELSE Value(tag.s)

\* highway = (edge_data.get("highway") or "").lower(), then the isinstance
\* test: a non-empty list has no .lower(); an empty list is falsy
highway_of(edge_data) ==
    LET tag == edge_data.highway IN
    IF tag.t = "list" /\ tag.l # <<>> THEN AttributeError
    ELSE Value(tag.s)

\* (mode or "commute").lower().strip()
NormMode(mode) ==
    CASE mode \in {"", "None"} -> "commute"
      [] mode = " Jogger "     -> "jogger"
      [] OTHER                 -> mode

Clamp(score) == IF score < 10 THEN 10 ELSE IF score > 500 THEN 500 ELSE score

mode_modifier(edge_data, mode) ==
    LET md == NormMode(mode)
        hw == highway_of(edge_data)
        highway == hw.value
        leisure == edge_data.leisure.s
        cycleway == edge_data.cycleway.t # "none"
        major == highway \in {"motorway", "trunk", "motorway_link", "trunk_link"}
        foot == highway \in {"path", "footway", "pedestrian"}
        score ==
           IF md \in {"jogger", "jog"}
           THEN LET s1 == IF major THEN 200 ELSE 100
                IN  IF leisure = "park" \/ foot THEN s1 \div 2 ELSE s1
           ELSE IF md \in {"cyclist", "cycle"}
           THEN LET s1 == IF cycleway THEN 70 ELSE 100
                IN  IF major THEN (s1 * 3) \div 2 ELSE s1
           ELSE IF foot /\ edge_data.access.s # "yes" THEN 120 ELSE 100
    IN  IF hw.raised THEN AttributeError ELSE Value(Clamp(score))

\* _speed_kph: a numeric maxspeed is returned before the highway tag is read
speed_kph(edge_data) ==
    IF edge_data.maxspeed # 0 THEN Value(edge_data.maxspeed)
    ELSE LET hw == highway_of(edge_data) IN
         IF hw.raised THEN AttributeError
         ELSE Value(CASE hw.value \in {"motorway", "motorway_link"} -> 100
                      [] hw.value \in {"trunk", "trunk_link"}       -> 80
                      [] hw.value \in {"primary", "primary_link"}   -> 60
                      [] hw.value \in {"secondary", "secondary_link"} -> 50
                      [] hw.value \in {"cycleway", "path"}          -> 15
                      [] hw.value \in {"footway", "pedestrian"}     -> 5
                      [] OTHER                                      -> 25)

EdgeData(highway, leisure, cycleway, access, maxspeed) ==
    [highway |-> highway, leisure |-> leisure, cycleway |-> cycleway,
     access |-> access, maxspeed |-> maxspeed]

WeightsIdle ==
    /\ m_pc = "idle" /\ m_i = 0 /\ m_attrs = <<>> /\ m_ret = 0
    /\ m_call = [fn |-> "none", edges |-> <<>>, mode |-> ""]

\* mode_modifier(edge_data, mode)
CallModifier ==
    /\ m_pc = "call" /\ m_call.fn = "mode_modifier"
    /\ LET out == mode_modifier(m_call.edges[1], m_call.mode) IN
       /\ m_pc' = IF out.raised THEN "raised" ELSE "returned"
       /\ m_ret' = out.value
    /\ UNCHANGED <<m_call, m_i, m_attrs>>

\* build_weighted_graph: the loop body for the next edge
BuildEdge ==
    /\ m_pc = "call" /\ m_call.fn = "build_weighted_graph"
    /\ m_i < Len(m_call.edges)
    /\ LET data == m_call.edges[m_i + 1]
           speed == speed_kph(data)
           mod == mode_modifier(data, m_call.mode)
       IN  IF speed.raised \/ mod.raised
           THEN m_pc' = "raised" /\ UNCHANGED <<m_i, m_attrs>>
           ELSE /\ m_attrs' = Append(m_attrs, {"weight", "length_m", "mean_upes", "time_h"})
                /\ m_i' = m_i + 1
                /\ m_pc' = m_pc
    /\ UNCHANGED <<m_call, m_ret>>

\* build_weighted_graph: return G
BuildReturn ==
    /\ m_pc = "call" /\ m_call.fn = "build_weighted_graph"
    /\ m_i = Len(m_call.edges)
    /\ m_pc' = "returned"
    /\ UNCHANGED <<m_call, m_i, m_attrs, m_ret>>

(***************************************************************************)
(* The UPES grid: GridSpec (grid_aggregation.py), write_geotiff            *)
(* (storage.py) and the sampler's pixel lookup (upes_sampling.py).         *)
(* Coordinates are integers in units of half the finest resolution, the    *)
(* bbox has west = south = 0.  Rows and columns are 0-based as in the      *)
(* code; an array is a sequence of rows, row i being element i + 1.        *)
(***************************************************************************)
MaxExtent == 6

NoPixel == <<-1, -1>>

Max2(a, b) == IF a >= b THEN a ELSE b
Min2(a, b) == IF a <= b THEN a ELSE b

\* GridSpec.from_bbox
from_bbox(west, south, east, north, resolution_deg) ==
    [west |-> west, south |-> south, east |-> east, north |-> north,
     resolution_deg |-> resolution_deg,
     nx |-> Max2(1, (east - west) \div resolution_deg),
     ny |-> Max2(1, (north - south) \div resolution_deg)]

\* GridSpec.cell_index: (row, col), row 0 at the south
cell_index(spec, lon, lat) ==
    LET j == (lon - spec.west) \div spec.resolution_deg
        i == (lat - spec.south) \div spec.resolution_deg
    IN  <<Max2(0, Min2(i, spec.ny - 1)), Max2(0, Min2(j, spec.nx - 1))>>

\* aggregate_pollution_grid_to_regular: the (ny, nx) array; each element is
\* named by the index pair under which the aggregator filled it.
AggregatedArray(spec) ==
    [i1 \in 1..spec.ny |-> [j1 \in 1..spec.nx |-> <<i1 - 1, j1 - 1>>]]

\* rasterio.transform.from_bounds: origin at (west, north), pixel width
\* (east - west) / width and pixel height (north - south) / height, both
\* kept as fractions.
from_bounds(west, south, east, north, width, height) ==
    [c |-> west, f |-> north,
     xnum |-> east - west, xden |-> width,
     ynum |-> north - south, yden |-> height]

\* write_geotiff: the array is written as it is, under from_bounds
write_geotiff(data, spec) ==
    [transform |-> from_bounds(spec.west, spec.south, spec.east, spec.north,
                               spec.nx, spec.ny),
     height |-> spec.ny, width |-> spec.nx,
     band |-> data]

\* rasterio.transform.rowcol (floor): row counted down from the north edge
rowcol(transform, lon, lat) ==
    <<((transform.f - lat) * transform.yden) \div transform.ynum,
      ((lon - transform.c) * transform.xden) \div transform.xnum>>

\* sample_upes_along_line_mean_max, one point: the pixel read, if in range
SamplePixel(src, lon, lat) ==
    LET rc == rowcol(src.transform, lon, lat)
    IN  IF 0 <= rc[1] /\ rc[1] < src.height /\ 0 <= rc[2] /\ rc[2] < src.width
        THEN src.band[rc[1] + 1][rc[2] + 1]
        ELSE NoPixel

GridIdle ==
    /\ g_pc = "idle" /\ g_spec = from_bbox(0, 0, 1, 1, 1)
    /\ g_point = <<0, 0>> /\ g_cell = NoPixel
    /\ g_raster = write_geotiff(<<>>, from_bbox(0, 0, 1, 1, 1))
    /\ g_px = NoPixel

\* aggregate_pollution_grid_to_regular buckets the observation
GridAggregate ==
    /\ g_pc = "aggregate"
    /\ g_cell' = cell_index(g_spec, g_point[1], g_point[2])
    /\ g_pc' = "write"
    /\ UNCHANGED <<g_spec, g_point, g_raster, g_px>>

\* write_upes_rasters writes the final-score array of that grid
GridWrite ==
    /\ g_pc = "write"
    /\ g_raster' = write_geotiff(AggregatedArray(g_spec), g_spec)
    /\ g_pc' = "sample"
    /\ UNCHANGED <<g_spec, g_point, g_cell, g_px>>

\* the route sampler reads the raster at the same point
GridSample ==
    /\ g_pc = "sample"
    /\ g_px' = SamplePixel(g_raster, g_point[1], g_point[2])
    /\ g_pc' = "sampled"
    /\ UNCHANGED <<g_spec, g_point, g_cell, g_raster>>

(***************************************************************************)
(* The pollution_grid table over several hours: fetch_tempo_hourly stamps  *)
(* its rows with the start of the last completed hour, compute_upes_hourly *)
(* aggregates the rows of a window ending at the table's MAX(timestamp).   *)
(* Timestamps are whole hours.                                             *)
(***************************************************************************)
MaxIngestHours == 3

GridCells == {1, 2}

\* fetch_tempo_hourly: end_time = now truncated to the hour,
\* start_time = end_time - 1 h, timestamp = start_time
IngestTimestamp(utcnow) == utcnow - 1

\* SELECT MAX(timestamp) FROM pollution_grid
MaxTimestamp(table) ==
    CHOOSE t \in {r.timestamp : r \in table} :
        \A r \in table : r.timestamp <= t

\* aggregate_pollution_grid_to_regular: WHERE timestamp >= :ts_start AND
\* timestamp <= :ts_end (every modelled row lies in the bbox)
RowsInWindow(table, ts_start, ts_end) ==
    {r \in table : ts_start <= r.timestamp /\ r.timestamp <= ts_end}

\* compute_upes_hourly up to the aggregation
compute_upes_hourly(table) ==
    IF table = {}
    THEN [status |-> "skipped", max_ts |-> 0, rows |-> {}]
    ELSE LET ts_end   == MaxTimestamp(table)
             ts_start == ts_end - 1
         IN  [status |-> "ok", max_ts |-> ts_end,
              rows |-> RowsInWindow(table, ts_start, ts_end)]

WindowIdle ==
    /\ w_now = 1 /\ w_ingested = FALSE /\ w_table = {}
    /\ w_upes = [status |-> "none", max_ts |-> 0, rows |-> {}]

\* celery beat, minute 0: one run of fetch_tempo_hourly; the gases that
\* succeed insert rows for some cells (none when every gas failed)
FetchTempoHourly ==
    /\ w_ingested = FALSE
    /\ \E cells \in SUBSET GridCells, value \in {1, 2} :
         w_table' = w_table \cup
            {[timestamp |-> IngestTimestamp(w_now), cell |-> c,
              pollution_value |-> value] : c \in cells}
    /\ w_ingested' = TRUE
    /\ UNCHANGED <<w_now, w_upes>>

\* compute_upes_hourly, chained after the ingestion or at minute 15
ComputeUpesHourly ==
    /\ w_upes' = compute_upes_hourly(w_table)
    /\ UNCHANGED <<w_now, w_ingested, w_table>>

\* the next hour begins
HourPasses ==
    /\ w_now < MaxIngestHours
    /\ w_now' = w_now + 1
    /\ w_ingested' = FALSE
    /\ UNCHANGED <<w_table, w_upes>>

SysIdle == BeatIdle /\ CacheIdle /\ TokenIdle /\ RaceIdle /\ WeightsIdle /\ GridIdle /\ WindowIdle

RestIdle ==
    /\ RetryIdle /\ WaitIdle /\ IngestIdle /\ WorkerIdle
    /\ NormIdle /\ DetectIdle /\ ScoreIdle /\ PathIdle

CallIdle == NormIdle /\ DetectIdle /\ ScoreIdle /\ PathIdle /\ SysIdle

AppIdle == RetryIdle /\ WaitIdle /\ IngestIdle /\ WorkerIdle /\ SysIdle

(***************************************************************************)
(* Specifications                                                          *)
(***************************************************************************)
InitRetry ==
    /\ CallIdle
    /\ rq = "loop" /\ attempt = 0 /\ responses = <<>> /\ sleeps = <<>>
    /\ WaitIdle
    /\ IngestIdle
    /\ WorkerIdle

NextRetry ==
    \E r \in RetryResponses :
        /\ RequestAttempt(r)
        /\ UNCHANGED <<waitVars, ingestVars, workerVars, callVars, sysVars>>

SpecRetry == InitRetry /\ [][NextRetry]_vars

InitWait ==
    /\ CallIdle
    /\ RetryIdle
    /\ w_pc = "top" /\ elapsed = 0 /\ status = ""
    /\ IngestIdle
    /\ WorkerIdle

WaitStep == (WaitTop \/ WaitPoll) /\ UNCHANGED <<retryVars, ingestVars, workerVars, callVars, sysVars>>

NextWait == WaitStep

SpecWait == InitWait /\ [][NextWait]_vars /\ WF_vars(WaitStep)

InitIngest ==
    /\ CallIdle
    /\ RetryIdle
    /\ WaitIdle
    /\ f_pc = "loop" /\ gi = 1 /\ attempted = <<>> /\ sub = NoSub
    /\ job_polled = FALSE /\ dl = NoDl
    /\ retval = "None" /\ path = "None" /\ tmpfiles = 0
    /\ upload = "none" /\ session = "closed" /\ rowsLeft = 0 /\ pending = 0
    /\ chunk_no = 0 /\ failed_chunk = 0
    /\ stored = [g \in GasSet |-> 0] /\ inserted_total = 0
    /\ marker = NoMarker /\ enqueued = <<>> /\ f_result = "running"
    /\ WorkerIdle

NextIngest ==
    \/ StartGas
    \/ EndLoop
    \/ GetToken
    \/ CoverageRequest
    \/ SubmitRequest
    \/ Dispatch
    \/ WaitForJob
    \/ DownloadToTempFile
    \/ FetchReturn
    \/ Upload
    \/ OpenSession
    \/ InsertChunk
    \/ CloseSession
    \/ Cleanup
    \/ SetMarker
    \/ EnqueueRecompute
    \/ EnqueueUpes
    \/ ReturnIngest

SpecIngest == InitIngest /\ [][NextIngest]_vars

(***************************************************************************)
(* Properties of the ingestion driver                                      *)
(***************************************************************************)
AfterLoop == f_pc \in {"after", "enqueue_recompute", "enqueue_upes", "return", "done"}
InGas == f_pc \in {"token", "submit", "dispatch", "wait", "download", "fetch_ret",
                   "upload", "session", "insert", "close", "cleanup"}
IsPrefix(s, t) == Len(s) <= Len(t) /\ s = SubSeq(t, 1, Len(s))

\* C4 (as stated in the specification): _request_with_retry retries an
\* answer of 429 or of any 5xx status, waiting 10 s and then 20 s, sends at
\* most three requests, and raises when the last attempt is still such an
\* answer; so a 429/5xx answer is never handed back after fewer than three
\* requests.  The code retries 429, 500, 502 and 503 only.
C4_Retries429AndAll5xx ==
    /\ Len(responses) <= 3
    /\ \A i \in 1..Len(responses) :
         Is429or5xx(responses[i]) =>
            \/ i < Len(responses)
            \/ i < 3 /\ rq = "loop"
            \/ i = 3 /\ rq = "raised"
    /\ (\A i \in 1..Len(responses) : ~responses[i].exc) => IsPrefix(sleeps, <<10, 20>>)

\* C6: wait_for_job always terminates; it returns when the status is
\* successful or complete, raises when it is failed, canceled or error,
\* raises the timeout only once more than 3600 s have elapsed with a status
\* that is still not terminal, and does nothing after a terminal status.
C6_WaitForJobTerminates ==
    /\ <>WaitDone
    /\ []( /\ status \in {"successful", "complete"} <=> w_pc = "returned"
           /\ status \in {"failed", "canceled", "error"} <=> w_pc = "raised_job"
           /\ w_pc = "raised_timeout" => elapsed > 3600
           /\ w_pc = "poll" => elapsed <= 3600 )
    /\ [][WaitDone => UNCHANGED waitVars]_vars

C6_Witness == w_pc = "raised_timeout" /\ status = "running" /\ elapsed > 3600

\* C5: a coverage request answered with a 4xx status other than 429 is not
\* retried: it is the only request of the call, fetch_tempo_geotiff returns
\* None for that gas without polling a job and without creating a file, and
\* the gases after it are still attempted.
C5_RejectionNotRetried ==
    /\ []( /\ \A i \in 1..Len(responses) :
                IsRejection(responses[i]) => i = Len(responses) /\ rq = "returned"
           /\ (sub.kind # "none" /\ IsRejection(St(sub.code))) =>
                /\ sub.kind = "raised"
                /\ ~job_polled
                /\ f_pc \in {"dispatch", "fetch_ret"}
                /\ f_pc = "fetch_ret" => retval = "None"
           /\ AfterLoop => attempted = gases )
    /\ [][(sub.kind # "none" /\ IsRejection(St(sub.code))) =>
             /\ tmpfiles' = tmpfiles
             /\ f_pc = "fetch_ret" => (path' = "None" /\ f_pc' = "cleanup")]_vars

C5_Witness ==
    /\ f_pc = "fetch_ret" /\ gi = 2
    /\ sub.kind = "raised" /\ sub.code = 404
    /\ stored["NO2"] > 0

\* C1 (as stated in the specification): each gas is attempted exactly once,
\* in order, and a gas whose fetch returns no data, or whose upload,
\* normalization or insert raises, is skipped.
C1_UploadFailureSkipsGas ==
    /\ IsPrefix(attempted, gases)
    /\ AfterLoop => attempted = gases
    /\ (InGas /\ path = "None") => stored[gas] = 0
    /\ (InGas /\ upload = "raised") => (stored[gas] = 0 /\ f_pc # "insert")

\* C1 (amended): each gas is attempted exactly once, in order, and every
\* gas is attempted whatever happened to the earlier ones; a gas without
\* data is skipped (no upload, no session, no row); after normalization or
\* an insert raised no further chunk of the gas is inserted; a gas whose
\* audit upload raised is normalized and inserted like any other, so that
\* without a later failure all of its rows are stored.
C1_GasLoop ==
    /\ IsPrefix(attempted, gases)
    /\ InGas => Len(attempted) = gi
    /\ f_pc = "loop" => Len(attempted) = gi - 1
    /\ AfterLoop => attempted = gases
    /\ f_pc \in {"upload", "session", "insert", "close"} => path = "path"
    /\ (InGas /\ path = "None") => (stored[gas] = 0 /\ upload = "none")
    /\ failed_chunk > 0 => f_pc \in {"close", "cleanup"}
    /\ upload = "raised" => f_pc \in {"session", "insert", "close", "cleanup"}
    /\ (f_pc = "cleanup" /\ path = "path" /\ failed_chunk = 0) => rowsLeft = 0

C1_Witness ==
    /\ f_pc = "cleanup" /\ gi = 5
    /\ upload = "raised" /\ failed_chunk = 0 /\ stored["O3"] = MaxCells
    /\ stored["NO2"] = 0 /\ stored["CH2O"] < MaxCells

BothEnqueued == <<"recompute_saved_route_exposure", "compute_upes_hourly">>

\* C2 (as stated in the specification): the marker and the two follow-up
\* tasks come only after all five gases; a run that inserted at least one
\* cell ends with the marker set (TTL 3600 s) and both tasks enqueued; a run
\* that inserted nothing sets no marker and enqueues nothing.
C2_MarkerAndBothTasksWheneverInserted ==
    /\ (marker.set \/ enqueued # <<>>) => (AfterLoop /\ attempted = gases)
    /\ (f_pc = "done" /\ inserted_total > 0) =>
          (marker = [set |-> TRUE, ttl |-> 3600] /\ enqueued = BothEnqueued)
    /\ (f_pc = "done" /\ inserted_total = 0) => (~marker.set /\ enqueued = <<>>)

\* C2 (amended): the marker and the follow-up tasks come only after all five
\* gases and only in a run that inserted at least one cell; the marker, when
\* set, has a TTL of 3600 s, and it is left unset when no cache URL is
\* configured or the cache call raises; the recompute is enqueued first and
\* the UPES compute after it; a run that returns after inserting at least
\* one cell has enqueued the recompute; when the recompute cannot be
\* enqueued the run ends with that exception and the UPES compute is not
\* enqueued; a run that inserted nothing sets no marker, enqueues nothing
\* and returns.
C2_MarkerAndChain ==
    /\ (marker.set \/ enqueued # <<>>) =>
          (AfterLoop /\ f_pc # "after" /\ attempted = gases /\ inserted_total > 0)
    /\ marker.set => marker.ttl = 3600
    /\ IsPrefix(enqueued, BothEnqueued)
    /\ (f_pc = "done" /\ f_result = "dict" /\ inserted_total > 0) =>
          (enqueued # <<>> /\ enqueued[1] = "recompute_saved_route_exposure")
    /\ (f_pc = "done" /\ f_result = "raised") => (enqueued = <<>> /\ inserted_total > 0)
    /\ (f_pc = "done" /\ inserted_total = 0) =>
          (~marker.set /\ enqueued = <<>> /\ f_result = "dict")

C2_Witness ==
    /\ f_pc = "done" /\ f_result = "dict" /\ inserted_total > 0
    /\ marker = [set |-> TRUE, ttl |-> 3600]
    /\ enqueued = BothEnqueued

\* C7: a chunk of at most ChunkSize rows is stored as a unit; when chunk k
\* of a gas fails, chunks 1..k-1 of that gas are stored in full, no row of
\* chunk k is stored, and what earlier gases stored stays as it was.
C7_ChunkIsUnitOfFailure ==
    /\ []( /\ (f_pc = "insert" /\ rowsLeft > 0) => stored[gas] = chunk_no * ChunkSize
           /\ f_pc = "insert" => stored[gas] <= chunk_no * ChunkSize
           /\ (InGas /\ failed_chunk > 0) => stored[gas] = (failed_chunk - 1) * ChunkSize
           /\ pending <= ChunkSize
           /\ f_pc \in {"cleanup", "loop"} => pending = 0 )
    /\ [][ /\ \A g \in GasSet : stored'[g] >= stored[g]
           /\ \A g \in GasSet : stored'[g] # stored[g] =>
                 (f_pc = "insert" /\ g = gas /\ stored'[g] - stored[g] <= ChunkSize)
           /\ failed_chunk' > failed_chunk => stored' = stored ]_vars

C7_Witness ==
    /\ f_pc = "cleanup" /\ gi = 2 /\ failed_chunk = 2
    /\ stored["NO2"] = MaxCells /\ stored["CH2O"] = ChunkSize
    /\ rowsLeft > 0

(***************************************************************************)
(* SpecUpes                                                                *)
(***************************************************************************)
InitUpes ==
    /\ CallIdle
    /\ RetryIdle /\ WaitIdle /\ IngestIdle
    /\ settings \in [upes_enabled : BOOLEAN, alerts_enabled : {TRUE},
                     redis_url : BOOLEAN, alerts_n8n_webhook_url : {FALSE}]
    /\ TaskIdle
    /\ grid \in {"empty", "outside", "inside"}
    /\ sat_rasters = {} /\ upes_logs = {}
    /\ final_rasters \in {{}, {File(PrevHour, TRUE)}}
    /\ upes_marker = FALSE
    /\ legacy = [r \in Routes |-> "unset"]
    /\ AlertsIdle

NextUpes ==
    \/ UpesStart
    \/ UpesWriteRasters
    \/ UpesWriteLog
    \/ UpesReturn
    \/ RecomputeStart
    \/ RecomputeRoutes

SpecUpes == InitUpes /\ [][NextUpes]_vars

Finished(name) == t_task = name /\ t_pc = "idle" /\ t_result # Running

\* C3 (as stated in the specification): no task lets an exception escape;
\* whatever fails inside it, it ends by returning a status dict.
C3_TasksAlwaysReturnDict ==
    /\ f_pc = "done" => f_result = "dict"
    /\ (t_task # "none" /\ t_pc = "idle") => t_result.kind = "dict"

\* C8 (as stated in the specification): a task that finds its prerequisite
\* missing returns {status: skipped, reason} and writes nothing:
\* compute_upes_hourly when disabled, when the grid is empty or when no gas
\* has data in the box, recompute_saved_route_exposure when the grid is
\* empty, compute_saved_route_upes_scores without a raster,
\* run_alert_pipeline when the flag is off.
C8_MissingPrerequisiteIsSkipped ==
    /\ (Finished("compute_upes_hourly") /\ t_result.kind # "raised"
          /\ (~settings.upes_enabled \/ grid # "inside")) =>
          (t_result.status = "skipped" /\ t_result.reason # "" /\ t_writes = {})
    /\ (Finished("recompute_saved_route_exposure") /\ t_result.kind # "raised"
          /\ grid = "empty") =>
          (t_result.status = "skipped" /\ t_result.reason # "" /\ t_writes = {})
    /\ (Finished("compute_saved_route_upes_scores") /\ t_result.kind # "raised"
          /\ final_rasters = {}) =>
          (t_result.status = "skipped" /\ t_result.reason # "" /\ t_writes = {})
    /\ (Finished("run_alert_pipeline") /\ t_result.kind # "raised"
          /\ ~settings.alerts_enabled) =>
          (t_result.status = "skipped" /\ t_result.reason # "" /\ t_writes = {})

(***************************************************************************)
(* SpecAlerts                                                              *)
(***************************************************************************)
InitAlerts ==
    /\ CallIdle
    /\ RetryIdle /\ WaitIdle /\ IngestIdle
    /\ settings \in [upes_enabled : {TRUE}, alerts_enabled : BOOLEAN,
                     redis_url : {TRUE}, alerts_n8n_webhook_url : BOOLEAN]
    /\ TaskIdle
    /\ grid = "empty" /\ sat_rasters = {} /\ upes_logs = {} /\ upes_marker = FALSE
    /\ final_rasters \in {{}, {File(UpesHour, TRUE)}}
    /\ legacy = [r \in Routes |-> "unset"]
    /\ AlertsIdle

NextAlerts ==
    \/ ScoreRoutes
    \/ AlertStart
    \/ AlertRoute
    \/ AlertCommit
    \/ AlertWebhook
    \/ AlertReturn

SpecAlerts == InitAlerts /\ [][NextAlerts]_vars

PipelinePast(pcs) == t_task = "run_alert_pipeline" /\ t_pc \in pcs

\* C9: in run_alert_pipeline the alerts fired in the run are committed to
\* the alert log before the webhook POST is attempted; the POST is sent at
\* most once per run, and only with a webhook URL configured and at least
\* one alert fired; whatever the POST answers (an exception, a status
\* >= 400), the committed alerts stay and the task returns status ok with
\* the number of alerts.
C9_CommitBeforeWebhook ==
    /\ []( /\ Len(posts) <= 1
           /\ posts # <<>> =>
                (settings.alerts_n8n_webhook_url /\ a_payload # <<>>)
           /\ PipelinePast({"webhook", "return"}) =>
                (a_pending = <<>> /\ Range(a_payload) \subseteq Range(alert_log))
           /\ (PipelinePast({"idle"}) /\ posts # <<>>) =>
                /\ t_result = Ok(Len(a_payload))
                /\ Len(a_payload) = Len(evaluated[1].alerts) + Len(evaluated[2].alerts)
                /\ Range(a_payload) \subseteq Range(alert_log) )
    /\ [][ /\ (posts' # posts /\ posts' # <<>>) =>
                (t_pc = "webhook" /\ Range(a_payload) \subseteq Range(alert_log))
           /\ PipelinePast({"webhook", "return"}) =>
                (alert_log' = alert_log /\ t_pc' \in {"return", "idle"}) ]_vars

C9_Witness ==
    /\ PipelinePast({"idle"})
    /\ posts = <<"500">>
    /\ t_result.status = "ok" /\ t_result.count >= 2
    /\ Len(alert_log) >= t_result.count

\* C10: each route's last_upes_score is the mean UPES of its most recent
\* history entry (none: no score), the two being written together; the
\* pipeline evaluates a route with current = last_upes_score and previous =
\* the mean UPES of the second-most-recent entry (absent with fewer than two
\* entries), and it evaluates exactly the routes that have a score.
C10_ScoreMatchesHistory ==
    \A r \in Routes :
       LET h == history[r] IN
       /\ \A i, j \in 1..Len(h) : i < j => h[i].timestamp < h[j].timestamp
       /\ last_upes_score[r] = IF h = <<>> THEN NoScore ELSE h[Len(h)].upes_score
       /\ (t_task = "run_alert_pipeline" /\ evaluated[r].done) =>
            /\ last_upes_score[r] # NoScore
            /\ evaluated[r].current = last_upes_score[r]
            /\ evaluated[r].prev = IF Len(h) >= 2 THEN h[Len(h) - 1].upes_score
                                   ELSE NoScore
       /\ (PipelinePast({"commit", "webhook", "return"})
             \/ (PipelinePast({"idle"}) /\ t_result.status = "ok")) =>
            (evaluated[r].done <=> last_upes_score[r] # NoScore)

C10_Witness ==
    /\ PipelinePast({"commit"})
    /\ Len(history[1]) = 2
    /\ evaluated[1].done /\ evaluated[1].prev = 300000 /\ evaluated[1].current = 420001
    /\ last_upes_score[2] = NoScore /\ ~evaluated[2].done

HazardAlerts(alerts) == SelectSeq(alerts, LAMBDA a : a.type = "hazard")

\* C14: a route evaluated by the pipeline gets a hazard alert exactly when
\* its maximum UPES is >= 0.85, whatever the owner's sensitivity; that
\* maximum is the max_upes_along_route of the newest history entry when it
\* is recorded and last_upes_score otherwise, and it is the alert's
\* score_after; every hazard row of alert_log has score_after >= threshold.
C14_HazardAtMaxAlongRoute ==
    /\ \A r \in Routes :
          (t_task = "run_alert_pipeline" /\ evaluated[r].done) =>
             LET h == history[r]
                 max_along == IF h # <<>> /\ h[Len(h)].max_upes_along_route # NoScore
                              THEN h[Len(h)].max_upes_along_route
                              ELSE last_upes_score[r]
                 hz == HazardAlerts(evaluated[r].alerts)
             IN  /\ Len(hz) = IF max_along >= 850000 THEN 1 ELSE 0
                 /\ \A i \in 1..Len(hz) :
                       hz[i].score_after = max_along /\ hz[i].threshold = 850000
    /\ \A i \in 1..Len(alert_log) :
          alert_log[i].alert_type = "hazard" =>
             /\ alert_log[i].threshold = 850000
             /\ alert_log[i].score_after >= alert_log[i].threshold

\* a hazard row is stored for the level-5 owner's route whose mean is 0.42
\* and whose maximum is 0.85, and none for the route whose maximum is 0.849999
C14_Witness ==
    /\ PipelinePast({"webhook"})
    /\ evaluated[1].done /\ evaluated[1].max = 849999
    /\ HazardAlerts(evaluated[1].alerts) = <<>>
    /\ evaluated[2].done /\ evaluated[2].current = 420001 /\ evaluated[2].max = 850000
    /\ \E i \in 1..Len(alert_log) :
          /\ alert_log[i].alert_type = "hazard" /\ alert_log[i].route_id = 2
          /\ alert_log[i].score_after = 850000

\* C15: the pipeline passes no pollution source to run_detection, which then
\* leaves the wind-shift detector out even when the wind is known; no
\* wind_shift alert is returned, flushed, committed or put in the payload.
C15_NoWindShiftFromPipeline ==
    /\ \A r \in Routes : evaluated[r].done => evaluated[r].source = NoPoint
    /\ \A i \in 1..Len(alert_log) : alert_log[i].alert_type # "wind_shift"
    /\ \A i \in 1..Len(a_pending) : a_pending[i].alert_type # "wind_shift"
    /\ \A i \in 1..Len(a_payload) : a_payload[i].alert_type # "wind_shift"
    /\ \A r \in Routes : \A i \in 1..Len(evaluated[r].alerts) :
          evaluated[r].alerts[i].type # "wind_shift"

\* a run that knew a 10 km/h wind for route 2 has stored alerts and posted
C15_Witness ==
    /\ PipelinePast({"return"})
    /\ evaluated[2].done /\ evaluated[2].wind_kph = 10
    /\ alert_log # <<>> /\ a_payload # <<>> /\ posts # <<>>

(***************************************************************************)
(* SpecNormalize: geotiff_to_grid_rows over one small raster               *)
(***************************************************************************)
InitNormalize ==
    /\ AppIdle /\ DetectIdle /\ ScoreIdle /\ PathIdle
    /\ n_pc = "scan"
    \* a pixel holds no data, zero, a threshold of the gas or the fill
    \* sentinel 1e20; max_cells is 1 or the default
    /\ \E g \in GasSet, shape \in {<<1, 1>>, <<1, 3>>, <<2, 2>>}, mc \in {1, MaxCells} :
         \E b \in [1..shape[1] -> [1..shape[2] ->
                      {NaN, Num(0, 0), Num(10, 19)} \cup
                      {POLLUTION_THRESHOLDS[g][k] : k \in DOMAIN POLLUTION_THRESHOLDS[g]}]] :
            raster = [gas_type |-> g, band |-> b, height |-> shape[1],
                      width |-> shape[2], max_cells |-> mc]
    /\ n_i = 0 /\ n_j = 0 /\ n_count = 0
    /\ n_chunk = <<>> /\ n_read = <<>> /\ n_yield = <<>>

NextNormalize ==
    \/ NormPixel
    \/ NormTail

SpecNormalize == InitNormalize /\ [][NextNormalize]_vars

RECURSIVE Flatten(_)
Flatten(chunks) ==
    IF chunks = <<>> THEN <<>> ELSE Head(chunks) \o Flatten(Tail(chunks))

\* the cells the generator has produced so far
EmittedCells == Flatten(n_yield) \o n_chunk

PixelAt(p) == raster.band[p[1] + 1][p[2] + 1]

IsFill(val, g) == ~isnan(val) /\ ~GE(FILL_VALUE_THRESHOLD(g), Abs(val))

\* C11: no emitted cell holds NaN or a value whose magnitude exceeds the
\* fill-value ceiling of its gas; every other pixel the scan read is emitted
\* (the scan stops at max_cells); an all-NaN raster yields no cell.
C11_NoDataPixelsNeverEmitted ==
    LET cells == EmittedCells
        kept == SelectSeq(n_read, LAMBDA p :
                   ~isnan(PixelAt(p)) /\ ~IsFill(PixelAt(p), raster.gas_type))
    IN /\ \A k \in 1..Len(cells) :
            /\ ~isnan(cells[k].pollution_value)
            /\ ~IsFill(cells[k].pollution_value, cells[k].gas_type)
       /\ Len(cells) <= raster.max_cells
       /\ Len(cells) = Len(kept)
       /\ \A k \in 1..Len(cells) : cells[k].geom_wkt = kept[k]
       /\ (\A i \in 1..raster.height, j \in 1..raster.width : isnan(raster.band[i][j]))
             => cells = <<>>

ThresholdsOf(g) == {POLLUTION_THRESHOLDS[g][k] : k \in DOMAIN POLLUTION_THRESHOLDS[g]}

\* C12: the severity of every emitted cell is the number of thresholds of
\* its gas that its value reaches (0 below the lowest, k from the k-th
\* threshold up to the next), is in 0..4, and does not decrease with the
\* value; for NO2, 0.0 gives 0, 5e15 gives 1, 1e16 gives 2 and 2e16 gives 3.
C12_SeverityIsClassification ==
    LET cells == EmittedCells IN
    /\ \A k \in 1..Len(cells) :
          LET c == cells[k] IN
          /\ c.severity_level \in 0..4
          /\ c.severity_level =
                Cardinality({t \in ThresholdsOf(c.gas_type) : GE(c.pollution_value, t)})
          /\ c.gas_type = "NO2" =>
                /\ c.pollution_value = Num(0, 0) => c.severity_level = 0
                /\ c.pollution_value = Num(50, 14) => c.severity_level = 1
                /\ c.pollution_value = Num(10, 15) => c.severity_level = 2
                /\ c.pollution_value = Num(20, 15) => c.severity_level = 3
    /\ \A k, l \in 1..Len(cells) :
          GE(cells[k].pollution_value, cells[l].pollution_value)
             => cells[k].severity_level >= cells[l].severity_level

\* a whole NO2 raster [[0.0, 5e15], [1e16, 2e16]] has been emitted
C12_Witness ==
    /\ n_pc = "done" /\ raster.gas_type = "NO2"
    /\ Len(EmittedCells) = 4
    /\ [k \in 1..4 |-> EmittedCells[k].pollution_value]
          = <<Num(0, 0), Num(50, 14), Num(10, 15), Num(20, 15)>>
    /\ [k \in 1..4 |-> EmittedCells[k].severity_level] = <<0, 1, 2, 3>>


(***************************************************************************)
(* SpecDetect: one call of a pure function of the alert layer              *)
(***************************************************************************)
InitDetect ==
    /\ AppIdle /\ NormIdle /\ ScoreIdle /\ PathIdle
    /\ d_pc = "call" /\ d_ret = <<>>
    \* scores in millionths around the 15 %, 10.5 % and 7.5 % rises of 0.30;
    \* exposure_sensitivity_level NULL (0), 1..5 and a value outside the table
    /\ \/ \E p \in {NoScore, 0, 300000, 400000},
             c \in {0, 320000, 322499, 322500, 331499, 331500, 344999, 345000,
                    420000, 430000, 442000, 460000},
             l \in 0..6 :
            d_call = [fn |-> "check_route_deterioration", prev |-> p, curr |-> c,
                      level |-> l]
       \* notification_preferences: None, or a dict over some of the three keys
       \/ \E prefs \in {NoPrefs} \cup
                UNION {[K -> BOOLEAN] : K \in SUBSET {"email", "push", "in_app"}} :
            d_call = [fn |-> "_channels_from_preferences", prefs |-> prefs]

NextDetect ==
    \/ CallDeterioration
    \/ CallChannels

SpecDetect == InitDetect /\ [][NextDetect]_vars

Returned(fn) == d_pc = "returned" /\ d_call.fn = fn

\* C13: check_route_deterioration fires exactly when prev > 0 and the
\* relative rise (curr - prev)/prev reaches base * scale(level), with scale
\* 0.7 for levels 3 and 4, 0.5 for level 5 and 1.0 otherwise (15 %, 10.5 %,
\* 7.5 %); the alert carries prev, curr and that threshold, so its own
\* fields satisfy the inequality; with prev absent or <= 0 nothing fires.
C13_DeteriorationFiresAtScaledThreshold ==
    Returned("check_route_deterioration") =>
        LET prev == d_call.prev
            curr == d_call.curr
            permille == CASE d_call.level \in {3, 4} -> 105
                          [] d_call.level = 5 -> 75
                          [] OTHER -> 150
        IN  /\ d_ret # <<>> <=>
                 (prev # NoScore /\ prev > 0 /\ (curr - prev) * 1000 >= prev * permille)
            /\ d_ret # <<>> =>
                 /\ Len(d_ret) = 1
                 /\ d_ret[1].type = "route_deterioration"
                 /\ d_ret[1].score_before = prev /\ d_ret[1].score_after = curr
                 /\ d_ret[1].threshold = permille * 1000
                 /\ (d_ret[1].score_after - d_ret[1].score_before) * 1000
                       >= d_ret[1].score_before * (d_ret[1].threshold \div 1000)
            /\ (prev = NoScore \/ prev <= 0) => d_ret = <<>>

\* a level-3 user whose score rose from 0.30 by exactly 10.5 % is alerted
C13_Witness ==
    /\ Returned("check_route_deterioration")
    /\ d_call.level = 3 /\ d_call.prev = 300000 /\ d_call.curr = 331500
    /\ d_ret # <<>> /\ d_ret[1].threshold = 105000


\* the channels a preferences value enables: email and push when set and
\* true, in_app when true or not set
EnabledChannels(prefs) ==
    IF prefs = NoPrefs THEN {"in_app"}
    ELSE {k \in {"email", "push"} : k \in DOMAIN prefs /\ prefs[k]}
         \cup {k \in {"in_app"} : k \notin DOMAIN prefs \/ prefs[k]}

\* C16: the channel list is exactly the enabled channels, each once
\* ([in_app] with no preferences at all).
C16_ChannelsAreTheEnabledOnes ==
    Returned("_channels_from_preferences") =>
        /\ Range(d_ret) = EnabledChannels(d_call.prefs)
        /\ Len(d_ret) = Cardinality(Range(d_ret))

\* C16 as the code has it: the channel list is exactly the enabled channels,
\* each once, and [in_app] when no channel is enabled.
C16_ChannelsOrInAppFallback ==
    Returned("_channels_from_preferences") =>
        /\ Range(d_ret) = IF EnabledChannels(d_call.prefs) = {} THEN {"in_app"}
                          ELSE EnabledChannels(d_call.prefs)
        /\ Len(d_ret) = Cardinality(Range(d_ret))

\* a user who switched in_app off and enabled nothing else is notified in_app
C16_Witness ==
    /\ Returned("_channels_from_preferences")
    /\ d_call.prefs = [email |-> FALSE, in_app |-> FALSE]
    /\ d_ret = <<"in_app">>


(***************************************************************************)
(* SpecScore: the final score of successive hours                          *)
(***************************************************************************)
InitScore ==
    /\ AppIdle /\ NormIdle /\ DetectIdle /\ PathIdle
    /\ u_pc = "compute" /\ u_hour = 0
    \* upes_ema_lambda: None, 0.5, the default 0.6, and 0 (outside (0, 1])
    /\ u_lambda \in {NoScore, 0, 5, 6}
    \* the raster of the hour before the first: none, one of another shape,
    \* or two cells
    /\ u_file \in {<<>>, <<Unit>>, <<0, Unit>>, <<nan, Unit \div 2>>}
    /\ u_in = [sat |-> <<>>, hdf |-> 0, wtf |-> 0, tf |-> 0, previous_final |-> <<>>]
    /\ u_final = <<>>

NextScore ==
    \/ ScoreCompute
    \/ ScoreWrite

SpecScore == InitScore /\ [][NextScore]_vars

Computed == u_pc = "write"

\* apply_ema blended the previous raster into this hour's score
Smoothed ==
    /\ u_lambda # NoScore /\ 0 < u_lambda /\ u_lambda <= 10
    /\ u_in.previous_final # <<>>
    /\ Len(u_in.previous_final) = Len(u_in.sat)

Dist(a, b) == IF a >= b THEN a - b ELSE b - a

\* C17: every cell of a final-score array that has a value satisfies
\* 0 <= final_score <= satellite_score * TF_max, smoothed or not.
C17_FinalWithinSatelliteBound ==
    Computed =>
       \A c \in 1..Len(u_final) :
          u_final[c] # nan =>
             /\ 0 <= u_final[c]
             /\ u_final[c] * 10 <= u_in.sat[c] * TFMaxTenths

\* C17 as the code has it: a cell has a value unless its satellite score or,
\* under smoothing, its previous score is NaN; a cell with a value is >= 0
\* and, without smoothing, <= satellite_score * TF_max; with smoothing it is
\* at most the larger of satellite_score * TF_max and its previous score.
C17_FinalWithinBoundOrPrevious ==
    Computed =>
       \A c \in 1..Len(u_final) :
          LET prev == IF Smoothed THEN u_in.previous_final[c] ELSE 0 IN
          /\ u_final[c] = nan <=> (u_in.sat[c] = nan \/ prev = nan)
          /\ u_final[c] # nan =>
                /\ 0 <= u_final[c]
                /\ \/ u_final[c] * 10 <= u_in.sat[c] * TFMaxTenths
                   \/ (Smoothed /\ u_final[c] <= prev)

\* smoothing lifted a cell whose satellite score is 0 to 0.5
C17_Witness ==
    /\ Computed /\ Smoothed /\ u_lambda = 5
    /\ u_in.sat = <<Unit, 0>> /\ u_in.previous_final = <<0, Unit>>
    /\ u_in.hdf = 2 /\ u_in.wtf = 2
    /\ u_final = <<Unit \div 2, Unit \div 2>>

\* C18: under smoothing each cell moves from its previous score towards the
\* unsmoothed score of the hour, to the fraction 1 - lambda of the distance,
\* so that a constant unsmoothed score F is approached hour after hour; the
\* cell has a value whatever the previous raster held, NaN included; current
\* [1.0, 0.0], previous [0.0, 1.0], lambda 0.5 give [0.5, 0.5].
C18_EmaConvergesToConstantInput ==
    (Computed /\ Smoothed) =>
       LET raw == RawScore(u_in)
           prev == u_in.previous_final
       IN  /\ \A c \in 1..Len(raw) :
                raw[c] # nan =>
                   /\ u_final[c] # nan
                   /\ prev[c] # nan =>
                         Dist(u_final[c], raw[c]) * 10
                            = (10 - u_lambda) * Dist(prev[c], raw[c])
           /\ (raw = <<Unit, 0>> /\ prev = <<0, Unit>> /\ u_lambda = 5)
                 => u_final = <<Unit \div 2, Unit \div 2>>


(***************************************************************************)
(* SpecPath: one call of shortest_path_optimized or k_shortest_paths       *)
(***************************************************************************)
InitPath ==
    /\ AppIdle /\ NormIdle /\ DetectIdle /\ ScoreIdle
    /\ p_pc = "call" /\ p_ret = <<>>
    \* the diamond, with or without a cheaper second edge 2 -> 3, a cross edge
    \* 2 -> 4 and a back edge 3 -> 1; a DiGraph has no parallel edge; node 0
    \* stands for a failed _nearest_node; the empty graph
    /\ \E extra \in SUBSET {Edge(2, 3, 1, 30, 700, 6, 35), Edge(2, 4, 0, 5, 500, 1, 25),
                            Edge(3, 1, 0, 20, 2000, 5, 100)},
          multi \in BOOLEAN, empty \in BOOLEAN,
          src \in 0..4, tgt \in 0..4, k \in 0..MaxK :
         /\ multi \/ Edge(2, 3, 1, 30, 700, 6, 35) \notin extra
         /\ empty => (extra = {} /\ multi)
         /\ p_call = [fn |-> IF k = 0 THEN "shortest_path_optimized"
                             ELSE "k_shortest_paths",
                      G |-> [multi |-> multi,
                             nodes |-> IF empty THEN {} ELSE 1..4,
                             edges |-> IF empty THEN {} ELSE Diamond \cup extra],
                      src |-> src, tgt |-> tgt, k |-> k]

NextPath ==
    \/ CallShortest
    \/ CallKShortest

SpecPath == InitPath /\ [][NextPath]_vars

PathReturned == p_pc = "returned"

\* the hops of a node path, and the edges of G a hop may run over
Hops(nodes) == {<<nodes[i], nodes[i + 1]>> : i \in 1..(Len(nodes) - 1)}
HopEdges(G, hop) == {e \in G.edges : e.u = hop[1] /\ e.v = hop[2]}

RECURSIVE SumOf(_, _)
SumOf(S, f) ==
    IF S = {} THEN 0
    ELSE LET x == CHOOSE y \in S : TRUE IN f[x] + SumOf(S \ {x}, f)

\* C19: every returned route runs over edges of the graph, one per hop, and
\* reports cost = the sum of their weights, distance = the sum of their
\* lengths, time_min = 60 * the sum of their time_h and exposure = the sum
\* of mean_upes * length; on the diamond the best route from 1 to 3 is
\* 1 -> 4 -> 3 with cost 0.80.
C19_RouteMetricsAreEdgeSums ==
    PathReturned =>
       /\ \A i \in 1..Len(p_ret) :
             LET r == p_ret[i]
                 hops == Hops(r.nodes)
             IN  \E pick \in [hops -> p_call.G.edges] :
                    /\ \A h \in hops : pick[h] \in HopEdges(p_call.G, h)
                    /\ r.cost = SumOf(hops, [h \in hops |-> pick[h].weight])
                    /\ r.distance_m = SumOf(hops, [h \in hops |-> pick[h].length_m])
                    /\ r.time_min = 60 * SumOf(hops, [h \in hops |-> pick[h].time_h])
                    /\ r.exposure = SumOf(hops, [h \in hops |->
                                                   pick[h].mean_upes * pick[h].length_m])
       /\ (p_call.G.edges = Diamond /\ p_call.G.multi /\ p_call.src = 1 /\ p_call.tgt = 3)
             => (p_ret # <<>> /\ p_ret[1].nodes = <<1, 4, 3>> /\ p_ret[1].cost = 80)

\* C20: k_shortest_paths returns at most k routes, each along a simple path
\* from the origin node to the destination node, by non-decreasing total
\* weight with parallel edges counted at their minimum; the first has the
\* least total weight of all paths; each route's cost is that total weight.
C20_KShortestOrderedByReportedCost ==
    (PathReturned /\ p_call.fn = "k_shortest_paths") =>
       LET G == p_call.G
           minw(h) == CHOOSE w \in {e.weight : e \in HopEdges(G, h)} :
                         \A e \in HopEdges(G, h) : w <= e.weight
           total(nodes) == SumOf(Hops(nodes), [h \in Hops(nodes) |-> minw(h)])
       IN  /\ Len(p_ret) <= p_call.k
           /\ \A i \in 1..Len(p_ret) :
                 LET nodes == p_ret[i].nodes IN
                 /\ nodes[1] = p_call.src /\ nodes[Len(nodes)] = p_call.tgt
                 /\ \A a, b \in 1..Len(nodes) : a # b => nodes[a] # nodes[b]
                 /\ \A h \in Hops(nodes) : HopEdges(G, h) # {}
                 /\ p_ret[i].cost = total(nodes)
           /\ \A i, j \in 1..Len(p_ret) :
                 i < j => total(p_ret[i].nodes) <= total(p_ret[j].nodes)
           /\ \A i, j \in 1..Len(p_ret) : i # j => p_ret[i].nodes # p_ret[j].nodes
           /\ p_ret # <<>> =>
                 \A q \in PathsFrom(to_simple_digraph(G), <<p_call.src>>, p_call.tgt) :
                    total(p_ret[1].nodes) <= PathWeight(to_simple_digraph(G), q)

(***************************************************************************)
(* SpecBeat: beat over MaxBeatHours hours, starting at 59 past the hour     *)
(* before, with the worker running the tasks at its own pace.              *)
(***************************************************************************)
InitBeat ==
    /\ RestIdle /\ CacheIdle /\ TokenIdle /\ RaceIdle /\ WeightsIdle /\ GridIdle /\ WindowIdle
    /\ b_clock = 59 /\ b_sent = <<>>
    /\ b_worker = [t \in BeatTasks |-> "idle"]

NextBeat ==
    /\ \/ BeatTick
       \/ \E t \in BeatTasks : WorkerStart(t)
       \/ \E t \in BeatTasks, outcome \in {"ok", "skipped", "failed"} :
             WorkerEnd(t, outcome)
    /\ UNCHANGED <<appVars, callVars, cacheVars, tokenVars, raceVars, weightVars, gridVars, windowVars>>

SpecBeat == InitBeat /\ [][NextBeat]_vars

\* the task beat sends at a minute of the hour ("none": no task)
TaskAtMinute(mn) ==
    CASE mn = 0  -> "fetch_tempo_hourly"
      [] mn = 15 -> "compute_upes_hourly"
      [] mn = 20 -> "compute_saved_route_upes_scores"
      [] mn = 25 -> "run_alert_pipeline"
      [] OTHER   -> "none"

\* C21: beat's messages are exactly one per hour for each of minutes 0
\* (ingestion), 15 (UPES), 20 (route scoring) and 25 (alert pipeline), in
\* time order, whatever the worker's tasks are doing: every such minute that
\* has begun has its message, and there is no other message.
C21_BeatFiresFourTimesEachHour ==
    /\ \A i \in DOMAIN b_sent :
          /\ b_sent[i].at <= b_clock
          /\ b_sent[i].task = TaskAtMinute(b_sent[i].at % 60)
          /\ \A j \in DOMAIN b_sent : i < j => b_sent[i].at < b_sent[j].at
    /\ \A c \in 60..b_clock :
          TaskAtMinute(c % 60) # "none" => \E i \in DOMAIN b_sent : b_sent[i].at = c
    /\ \A h \in 1..MaxBeatHours :
          b_clock >= 60 * h + 59 =>
             Cardinality({i \in DOMAIN b_sent : b_sent[i].at \div 60 = h}) = 4

\* the second hour's alert trigger has fired although ingestion is still
\* running, the UPES task failed and scoring was skipped
C21_Witness ==
    /\ Len(b_sent) >= 8
    /\ b_sent[8].task = "run_alert_pipeline"
    /\ b_worker["fetch_tempo_hourly"] = "running"
    /\ b_worker["compute_upes_hourly"] = "failed"
    /\ b_worker["compute_saved_route_upes_scores"] = "skipped"

(***************************************************************************)
(* SpecCache: calls of cache_get and cache_set on two keys while time       *)
(* passes; Redis is absent, answering, or refusing every command.          *)
(***************************************************************************)
InitCache ==
    /\ RestIdle /\ BeatIdle /\ TokenIdle /\ RaceIdle /\ WeightsIdle /\ GridIdle /\ WindowIdle
    /\ c_redis \in {"none", "up", "down"}
    /\ c_time = 0
    /\ c_store = [k \in CacheKeys |-> NoEntry]
    /\ c_set = [k \in CacheKeys |-> NoEntry]
    /\ c_last = [op |-> "none"]

NextCache ==
    /\ \/ \E k \in CacheKeys : cache_get(k)
       \* values: None, an int, a list, and two that are not JSON values
       \/ \E k \in CacheKeys, ttl \in {1, 2},
             v \in {None, [t |-> "int", v |-> 1], [t |-> "list", v |-> 1],
                    [t |-> "tuple", v |-> 1], [t |-> "datetime", v |-> 2024]} :
             cache_set(k, v, ttl)
       \/ CacheClock
    /\ UNCHANGED <<appVars, callVars, beatVars, tokenVars, raceVars, weightVars, gridVars, windowVars>>

SpecCache == InitCache /\ [][NextCache]_vars

IsJson(value) == value.t \in {"null", "bool", "int", "str", "list", "dict"}

InitToken ==
    /\ RestIdle /\ BeatIdle /\ CacheIdle /\ RaceIdle /\ WeightsIdle /\ GridIdle /\ WindowIdle
    /\ k_pc = "config" /\ k_requests = <<>> /\ k_ret = "None"
    /\ k_calls = 1 /\ k_first = 0
    /\ k_settings \in [bearer_token : {"", "configured"},
                       earthdata_username : {"", "user"},
                       earthdata_password : {"", "secret"}]

NextToken ==
    /\ \/ TokenCall
       \/ TokenConfig
       \/ \E resp \in ListResponses : TokenList(resp)
       \/ \E resp \in MintResponses : TokenMint(resp)
    /\ UNCHANGED <<appVars, callVars, beatVars, cacheVars, raceVars, weightVars, gridVars, windowVars>>

SpecToken == InitToken /\ [][NextToken]_vars

\* the requests of the current call
Sent == SubSeq(k_requests, k_first + 1, Len(k_requests))
Methods == [i \in DOMAIN Sent |-> Sent[i].method]

\* C23: a configured token is returned with no request sent; without one and
\* without complete credentials None is returned with no request sent;
\* otherwise the first request is the listing GET, a listing with tokens
\* ends the call with the first token's access_token, and a POST is only
\* ever sent second, after a listing that held no token.
C23_TokenPreference ==
    /\ k_settings.bearer_token # "" =>
          /\ k_requests = <<>>
          /\ k_pc = "returned" => k_ret = k_settings.bearer_token
    /\ (k_settings.bearer_token = "" /\
        (k_settings.earthdata_username = "" \/ k_settings.earthdata_password = "")) =>
          /\ k_requests = <<>>
          /\ k_pc = "returned" => k_ret = "None"
    /\ Sent # <<>> => Methods \in {<<"GET">>, <<"GET", "POST">>}
    /\ (Sent # <<>> /\ Sent[1].resp.kind = "http"
          /\ Sent[1].resp.code = 200 /\ Sent[1].resp.body # <<>>) =>
          /\ Methods = <<"GET">>
          /\ k_pc = "returned"
          /\ k_ret = Sent[1].resp.body[1].access_token
    /\ (k_pc = "returned" /\ Sent = <<>>) =>
          \/ k_settings.bearer_token # ""
          \/ k_settings.earthdata_username = ""
          \/ k_settings.earthdata_password = ""

\* the second call found two tokens listed and returned the first of them,
\* after the first call had to mint one
C23_Witness ==
    /\ k_calls = 2 /\ k_pc = "returned" /\ k_ret = "listed1"
    /\ Len(Sent) = 1 /\ Len(Sent[1].resp.body) = 2
    /\ k_first = 2 /\ k_requests[2].method = "POST"

(***************************************************************************)
(* SpecIngest, continued: the classification of the broker's answer and     *)
(* where a fetched file comes from.                                        *)
(***************************************************************************)
\* C24: a 302/303/307 with a Location is an async job at that URL, a 200
\* JSON answer with a jobID an async job at jobs/{id}, a 200 answer that is
\* not JSON a synchronous result without job URL; wait_for_job is entered
\* only for an async answer; and fetch_tempo_geotiff has a file to return
\* only from the first data link of the job document, from a synchronous
\* TIFF body, or from the data link of a synchronous JSON answer.
C24_SubmitClassification ==
    /\ (sub.code \in {302, 303, 307} /\ sub.shape = "location") =>
          (sub.is_async /\ sub.job_url = "location")
    /\ (sub.code = 200 /\ sub.shape = "json_job") =>
          (sub.is_async /\ sub.job_url = "jobs/id")
    /\ (sub.code = 200 /\ sub.shape \in {"tiff", "html"}) =>
          (~sub.is_async /\ sub.job_url = "None" /\ sub.resp)
    /\ job_polled =>
          \/ sub.code \in {302, 303, 307} /\ sub.shape = "location"
          \/ sub.code = 200 /\ sub.shape = "json_job"
    /\ retval = "path" =>
          \/ /\ job_polled
             /\ \E i \in DOMAIN dl.links :
                   /\ dl.links[i].rel = "data"
                   /\ \A j \in 1..(i - 1) : dl.links[j].rel # "data"
                   /\ dl.url = dl.links[i].href
          \/ /\ ~job_polled
             /\ sub.code = 200 /\ sub.shape = "tiff"
             /\ dl = NoDl
          \/ /\ ~job_polled
             /\ sub.code = 200 /\ sub.shape = "json_link"
             /\ dl.url = "data_href"

\* a file came from the second link of a job document, the first data link
C24_Witness ==
    /\ retval = "path" /\ job_polled
    /\ sub.code = 302
    /\ Len(dl.links) = 2 /\ dl.links[1].rel = "self"
    /\ dl.url = "href2"
(***************************************************************************)
(* SpecNormalize, continued: the stride of the scan.                       *)
(***************************************************************************)
\* the least whole k >= 1 with k >= sqrt(total / cap)
CeilSqrtOfRatio(total, cap) ==
    CHOOSE k \in 1..(total + 1) :
       /\ k * k * cap >= total
       /\ \A m \in 1..(k - 1) : m * m * cap < total

\* C25: with more pixels than max_cells the scan's stride is
\* ceil(sqrt(pixels / max_cells)), every pixel read lies on that stride, and
\* neither the pixels read nor the cells emitted outnumber max_cells; with
\* no more pixels than max_cells the stride is 1.
C25_StrideIsCeilSqrt ==
    n_pc # "idle" =>
       LET total == raster.height * raster.width
           cap == raster.max_cells
       IN  IF total > cap
           THEN /\ Step(raster) = CeilSqrtOfRatio(total, cap)
                /\ \A k \in 1..Len(n_read) :
                      /\ n_read[k][1] % CeilSqrtOfRatio(total, cap) = 0
                      /\ n_read[k][2] % CeilSqrtOfRatio(total, cap) = 0
                /\ Len(n_read) <= cap
                /\ Len(EmittedCells) <= cap
           ELSE Step(raster) = 1
(***************************************************************************)
(* SpecRace: one run of the UPES writer for this hour and one run of the    *)
(* scoring task, interleaved in every way; the scoring worker keeps         *)
(* running (weak fairness), the writer may stall.                          *)
(***************************************************************************)
InitRace ==
    /\ RestIdle /\ BeatIdle /\ CacheIdle /\ TokenIdle /\ WeightsIdle /\ GridIdle /\ WindowIdle
    \* the directory before this hour: empty, or the file of the hour before,
    \* whole or left partial by a failed write
    /\ \E prev \in {"absent", "whole", "partial"} :
         x_files = [h \in {PrevHour, UpesHour} |->
                      IF h = PrevHour /\ prev # "absent"
                      THEN [state |-> prev, mtime |-> 1] ELSE NoFile]
    /\ x_tick = 1 /\ x_upes = "idle" /\ x_score = "lookup"
    /\ x_seen = [h \in {PrevHour, UpesHour} |-> NoFile]
    /\ x_path = NoScore /\ x_hist = <<>> /\ x_result = Running

\* a step of the scoring task
RaceScoring ==
    /\ RaceLookup \/ RaceSample \/ RaceCommit
    /\ UNCHANGED <<appVars, callVars, beatVars, cacheVars, tokenVars, weightVars, gridVars, windowVars>>

\* a step of the writer
RaceWriting ==
    /\ RaceOpen \/ RaceClose
    /\ UNCHANGED <<appVars, callVars, beatVars, cacheVars, tokenVars, weightVars, gridVars, windowVars>>

NextRace == RaceWriting \/ RaceScoring

SpecRace == InitRace /\ [][NextRace]_vars /\ WF_vars(RaceScoring)

\* scoring looked up while this hour's file was absent or not yet closed
LookedUpDuringWrite ==
    x_score \in {"sampling", "commit", "done"} /\ x_seen[UpesHour].state # "whole"

RaceSafe ==
    LookedUpDuringWrite =>
       \* the file chosen is the one of greatest mtime at lookup, an earlier
       \* hour's as long as this hour's did not exist
       /\ x_path = NoScore <=> \A h \in DOMAIN x_seen : x_seen[h].state = "absent"
       /\ x_path # NoScore =>
             /\ x_seen[x_path].state # "absent"
             /\ \A h \in DOMAIN x_seen :
                   x_seen[h].state # "absent" => x_seen[h].mtime <= x_seen[x_path].mtime
             /\ x_seen[UpesHour].state = "absent" => x_path = PrevHour
             /\ \A i \in DOMAIN x_hist : x_hist[i].file = x_path
       \* with a file: status ok and one row per route
       /\ (x_score = "done" /\ x_path # NoScore) =>
             /\ x_result = Ok(Len(RouteSeq))
             /\ \A r \in Routes :
                   Cardinality({i \in DOMAIN x_hist : x_hist[i].route_id = r}) = 1
       /\ x_result \notin {Raised}

\* C26: scoring that looks the raster up while this hour's file is absent or
\* still being written takes the file of greatest mtime at lookup (the
\* earlier hour's while the new one does not exist), adds one history row
\* per route and returns status ok; it never raises and always finishes,
\* whatever the writer does.
C26_ScoringDuringUpesWrite ==
    /\ []RaceSafe
    /\ (x_score = "lookup") ~> (x_score = "done")

\* scoring finished with one row per route read from the half-written file
\* of this hour while the writer was still writing
C26_Witness ==
    /\ x_score = "done" /\ x_upes = "writing"
    /\ x_path = UpesHour /\ x_seen[UpesHour].state = "partial"
    /\ x_seen[PrevHour].state = "whole"
    /\ x_result = Ok(2)
    /\ Len(x_hist) = 2 /\ x_hist[1].read = "fallback"

(***************************************************************************)
(* SpecWeights: one call of mode_modifier on an edge, or of                 *)
(* build_weighted_graph on a graph of two edges.                           *)
(***************************************************************************)
InitWeights ==
    /\ RestIdle /\ BeatIdle /\ CacheIdle /\ TokenIdle /\ RaceIdle /\ GridIdle /\ WindowIdle
    /\ m_pc = "call" /\ m_i = 0 /\ m_attrs = <<>> /\ m_ret = 0
    /\ \E mode \in {"", "jogger", " Jogger ", "cyclist", "commute", "walk"} :
         \/ \E hw \in {NoTag, Str("motorway"), Str("footway"), Str("primary"),
                       List(<<"motorway", "primary">>), List(<<>>)},
               leisure \in {NoTag, Str("park")},
               cycleway \in {NoTag, Str("lane")},
               access \in {NoTag, Str("yes")} :
               m_call = [fn |-> "mode_modifier", mode |-> mode,
                         edges |-> <<EdgeData(hw, leisure, cycleway, access, 0)>>]
         \/ \E hw1, hw2 \in {Str("motorway"), Str("footway"),
                             List(<<"motorway", "primary">>)},
               maxspeed \in {0, 50} :
               m_call = [fn |-> "build_weighted_graph", mode |-> mode,
                         edges |-> <<EdgeData(hw1, NoTag, NoTag, NoTag, 0),
                                     EdgeData(hw2, NoTag, NoTag, NoTag, maxspeed)>>]

NextWeights ==
    /\ CallModifier \/ BuildEdge \/ BuildReturn
    /\ UNCHANGED <<appVars, callVars, beatVars, cacheVars, tokenVars, raceVars, gridVars, windowVars>>

SpecWeights == InitWeights /\ [][NextWeights]_vars

\* C27: mode_modifier never raises and returns a value in [0.1, 5.0]; a
\* jogger edge whose highway tag is the list [motorway, primary], outside a
\* park, gets 2.0; build_weighted_graph never raises and, once returned, has
\* set weight, length_m, mean_upes and time_h on every edge.
C27_ModifierClampedListFirst ==
    /\ m_pc # "raised"
    /\ (m_pc = "returned" /\ m_call.fn = "mode_modifier") =>
          /\ 10 <= m_ret /\ m_ret <= 500
          /\ (NormMode(m_call.mode) = "jogger"
                /\ m_call.edges[1].highway = List(<<"motorway", "primary">>)
                /\ m_call.edges[1].leisure = NoTag) => m_ret = 200
    /\ (m_pc = "returned" /\ m_call.fn = "build_weighted_graph") =>
          /\ Len(m_attrs) = Len(m_call.edges)
          /\ \A i \in DOMAIN m_attrs :
                m_attrs[i] = {"weight", "length_m", "mean_upes", "time_h"}

(***************************************************************************)
(* SpecGrid: one observation is aggregated into the UPES grid, the grid is *)
(* written as a raster, and the sampler reads the raster at the            *)
(* observation's centroid.  Points have odd coordinates, resolutions are   *)
(* even, so no point lies on a cell edge of the aggregation grid.          *)
(***************************************************************************)
InitGrid ==
    /\ RestIdle /\ BeatIdle /\ CacheIdle /\ TokenIdle /\ RaceIdle /\ WeightsIdle /\ WindowIdle
    /\ g_pc = "aggregate" /\ g_cell = NoPixel /\ g_px = NoPixel
    /\ g_raster = write_geotiff(<<>>, from_bbox(0, 0, 1, 1, 1))
    /\ \E east, north \in 2..MaxExtent, res \in {2, 4} :
         /\ g_spec = from_bbox(0, 0, east, north, res)
         /\ \E lon \in 1..(east - 1), lat \in 1..(north - 1) :
              /\ lon % 2 = 1 /\ lat % 2 = 1
              /\ g_point = <<lon, lat>>

NextGrid ==
    /\ GridAggregate \/ GridWrite \/ GridSample
    /\ UNCHANGED <<appVars, callVars, beatVars, cacheVars, tokenVars, raceVars, weightVars, windowVars>>

SpecGrid == InitGrid /\ [][NextGrid]_vars

\* C28: for a point inside the bbox, the raster pixel the sampler reads at
\* the point holds the value of the cell into which the aggregator bucketed
\* the observations with that centroid.
C28_SameCellAggregatedWrittenSampled ==
    g_pc = "sampled" => g_px = g_cell

(***************************************************************************)
(* SpecWindow: hourly ingestion runs, each followed at any time by runs of *)
(* compute_upes_hourly.                                                    *)
(***************************************************************************)
InitWindow ==
    /\ RestIdle /\ BeatIdle /\ CacheIdle /\ TokenIdle /\ RaceIdle /\ WeightsIdle /\ GridIdle
    /\ w_now = 1 /\ w_ingested = FALSE /\ w_table = {}
    /\ w_upes = [status |-> "none", max_ts |-> 0, rows |-> {}]

NextWindow ==
    /\ FetchTempoHourly \/ ComputeUpesHourly \/ HourPasses
    /\ UNCHANGED <<appVars, callVars, beatVars, cacheVars, tokenVars, raceVars, weightVars, gridVars>>

SpecWindow == InitWindow /\ [][NextWindow]_vars

\* C29: the rows compute_upes_hourly aggregates are exactly the rows whose
\* timestamp is the table's maximum timestamp; rows of the ingestion run of
\* the hour before are not among them.
C29_AggregatesOnlyLatestHour ==
    w_upes.status = "ok" =>
       w_upes.rows = {r \in w_table : r.timestamp = w_upes.max_ts}

\* C30: once fetch_tempo_hourly has returned (or raised), no temporary
\* GeoTIFF file created during the run is left on disk.
C30_NoTempFileAfterRun ==
    f_result # "running" => tmpfiles = 0

=============================================================================
